---- MODULE Spec2Model ----
(***************************************************************************)
(* XMR elimination planner of slang-common: computeXMRChanges              *)
(* (src/XMREliminate/XMRChangeSet.cpp) run over the XMRInfo records that   *)
(* XMRDetector::handle (src/XMREliminate/XMRDetector.cpp) builds for the   *)
(* hierarchical references of an elaborated design.                        *)
(*                                                                         *)
(* Every std::string is a sequence of one-character strings, so that the   *)
(* character loops of generatePortName, extractBasePath and                *)
(* extractArraySuffix and the string concatenations used as keys are       *)
(* computed as the code computes them.                                     *)
(***************************************************************************)
EXTENDS Integers, Sequences, FiniteSets, TLC

VARIABLES
    xmrInfos,            \* the std::vector<XMRInfo> handed to computeXMRChanges
    config,              \* XMREliminateConfig::pipeRegConfigMap
    idx,                 \* position of the range-for over xmrInfos (1-based)
    pc,                  \* "loop" | "done" of computeXMRChanges; "idle" otherwise
    processedXMRs,       \* std::set<std::string> of getUniqueId() keys
    processedBasePaths,  \* std::set<std::string> of sourceModule::basePath keys
    changes,             \* the XMRChangeSet under construction
    call,                \* the arguments of a call of generatePipelineRegisters
    rtl,                 \* the statements of the text the call returned
    regs,                \* the value of every reg the text declares
    rst,                 \* the level of the reset signal
    sampled,             \* inputs taken on the clock edges since reset was released
    input,               \* inputFiles, config.topModule, config.modules and the
                         \* clock/reset declarations of the design of a run
    runResult,           \* the XMREliminateResult of the run
    trees,               \* the syntax trees under rewriting
    rewriter,            \* XMRRewriterSecond::processedConnections
    pathString,          \* the argument of a call of generatePortName
    generatedName,       \* what the call returned, NoName before the call
    split                \* extractBasePath and extractArraySuffix of pathString

plannerVars == <<xmrInfos, config, idx, pc, processedXMRs, processedBasePaths, changes>>
pipeVars == <<call, rtl, regs, rst, sampled>>
elimVars == <<input, runResult, trees, rewriter>>
nameVars == <<pathString, generatedName, split>>
vars == <<plannerVars, pipeVars, elimVars, nameVars>>

-----------------------------------------------------------------------------
(* Bounds of the model *)

MaxXmrs == 2
MaxStages == 3
MaxWidth == 2

-----------------------------------------------------------------------------
(* Strings *)

RECURSIVE Join(_, _)
Join(parts, sep) ==
    IF parts = <<>> THEN <<>>
    ELSE IF Len(parts) = 1 THEN parts[1]
    ELSE parts[1] \o sep \o Join(Tail(parts), sep)

Dot == <<".">>
XmrPrefix == <<"_", "_", "x", "m", "r", "_", "_">>
dirInput == <<"i", "n", "p", "u", "t">>
dirOutput == <<"o", "u", "t", "p", "u", "t">>
EmptyStr == <<>>

\* character codes of the characters that occur in module and instance names
Ord(c) ==
    CASE c = "." -> 46
      [] c = "2" -> 50
      [] c = "K" -> 75
      [] c = "L" -> 76
      [] c = "M" -> 77
      [] c = "R" -> 82
      [] c = "S" -> 83
      [] c = "T" -> 84
      [] c = "_" -> 95
      [] c = "a" -> 97
      [] c = "b" -> 98
      [] c = "g" -> 103
      [] c = "k" -> 107
      [] c = "m" -> 109
      [] c = "u" -> 117
      [] c = "z" -> 122
      [] OTHER -> 0

\* std::string operator< : lexicographic on characters, a proper prefix first
RECURSIVE StrLess(_, _)
StrLess(a, b) ==
    IF b = <<>> THEN FALSE
    ELSE IF a = <<>> THEN TRUE
    ELSE IF Ord(a[1]) # Ord(b[1]) THEN Ord(a[1]) < Ord(b[1])
    ELSE StrLess(Tail(a), Tail(b))

-----------------------------------------------------------------------------
(* Name utilities, XMRChangeSet.cpp *)

RECURSIVE PortNameScan(_, _, _, _)
PortNameScan(fullPath, i, result, lastWasUnderscore) ==
    IF i > Len(fullPath) THEN result
    ELSE LET c == fullPath[i] IN
         IF c \in {".", " ", "\t", "\n"}
         THEN IF ~lastWasUnderscore
              THEN PortNameScan(fullPath, i + 1, Append(result, "_"), TRUE)
              ELSE PortNameScan(fullPath, i + 1, result, TRUE)
         ELSE PortNameScan(fullPath, i + 1, Append(result, c), FALSE)

generatePortName(fullPath) == PortNameScan(fullPath, 1, XmrPrefix, TRUE)

RECURSIVE BasePathScan(_, _, _, _)
BasePathScan(fullPath, i, result, bracketDepth) ==
    IF i > Len(fullPath) THEN result
    ELSE LET c == fullPath[i] IN
         IF c = "[" THEN BasePathScan(fullPath, i + 1, result, bracketDepth + 1)
         ELSE IF c = "]" THEN BasePathScan(fullPath, i + 1, result, bracketDepth - 1)
         ELSE IF bracketDepth = 0
              THEN BasePathScan(fullPath, i + 1, Append(result, c), bracketDepth)
              ELSE BasePathScan(fullPath, i + 1, result, bracketDepth)

extractBasePath(fullPath) == BasePathScan(fullPath, 1, <<>>, 0)

RECURSIVE ArraySuffixScan(_, _, _, _)
ArraySuffixScan(fullPath, i, suffix, bracketDepth) ==
    IF i > Len(fullPath) THEN suffix
    ELSE LET c == fullPath[i] IN
         IF c = "[" THEN ArraySuffixScan(fullPath, i + 1, Append(suffix, c), bracketDepth + 1)
         ELSE IF c = "]" THEN ArraySuffixScan(fullPath, i + 1, Append(suffix, c), bracketDepth - 1)
         ELSE IF bracketDepth > 0
              THEN ArraySuffixScan(fullPath, i + 1, Append(suffix, c), bracketDepth)
              ELSE ArraySuffixScan(fullPath, i + 1, suffix, bracketDepth)

extractArraySuffix(fullPath) == ArraySuffixScan(fullPath, 1, <<>>, 0)

\* XMRInfo::getUniqueId, fmt::format("{}_{}", sourceModule, fullPath)
getUniqueId(xmr) == xmr.sourceModule \o <<"_">> \o xmr.fullPath

\* fmt::format("assign {} = {};", lhs, rhs)
AssignText(lhs, rhs) ==
    <<"a", "s", "s", "i", "g", "n", " ">> \o lhs \o <<" ", "=", " ">> \o rhs \o <<";">>

-----------------------------------------------------------------------------
(* The elaborated design: instance tree, declared signals, references *)

nR == <<"R">>
nT == <<"T">>
nM == <<"M">>
nS == <<"S">>
nK == <<"K">>
nL == <<"L">>
nTu == <<"T", "_", "u">>
iu == <<"u">>
iua == <<"u", "_", "a">>
im == <<"m">>
im2 == <<"m", "2">>
ik == <<"k">>
iz == <<"z">>
ia == <<"a">>
blk == <<"g">>
sc == <<"c">>
ss == <<"s">>
sab == <<"a", "_", "b">>
sb == <<"b">>
sd == <<"d">>
se == <<"e">>
Sel0 == <<"[", "0", "]">>
SelXmr == <<"[", "u", ".", "a", "_", "b", "]">>

\* The instances of the design in the order an ASTVisitor reaches them
\* (compilation.getRoot().visit): a top-level instance carries the name of its
\* module, every other instance is listed after its parent.  There are three
\* top-level modules, R, T and T_u; L names its child like the instances of L
\* themselves.  M is instantiated twice and selects the module
\* of its instance k in a generate block g ("if (P) begin : g K k(); end else
\* begin : g S k(); end"), so the two instances of M differ in their child k.
\*   R                       R declares nothing
\*   T                       T declares c
\*   +- u   : S              S declares s[3:0], a_b[1:0], b[7:0]
\*   +- u_a : S
\*   +- m   : M
\*   |    +- u   : S
\*   |    +- g.k : K         K declares d
\*   |         +- z : L      L declares e
\*   |              +- z : S
\*   +- m2  : M
\*   |    +- u   : S
\*   |    +- g.k : S
\*   +- k   : K
\*        +- z : L
\*             +- z : S
\*   T_u                     T_u declares nothing
\*   +- a   : S
DesignInstances ==
    << [path |-> <<nR>>, def |-> nR],
       [path |-> <<nT>>, def |-> nT],
       [path |-> <<nT, iu>>, def |-> nS],
       [path |-> <<nT, iua>>, def |-> nS],
       [path |-> <<nT, im>>, def |-> nM],
       [path |-> <<nT, im, iu>>, def |-> nS],
       [path |-> <<nT, im, ik>>, def |-> nK],
       [path |-> <<nT, im, ik, iz>>, def |-> nL],
       [path |-> <<nT, im, ik, iz, iz>>, def |-> nS],
       [path |-> <<nT, im2>>, def |-> nM],
       [path |-> <<nT, im2, iu>>, def |-> nS],
       [path |-> <<nT, im2, ik>>, def |-> nS],
       [path |-> <<nT, ik>>, def |-> nK],
       [path |-> <<nT, ik, iz>>, def |-> nL],
       [path |-> <<nT, ik, iz, iz>>, def |-> nS],
       [path |-> <<nTu>>, def |-> nTu],
       [path |-> <<nTu, ia>>, def |-> nS] >>

Modules == {DesignInstances[i].def : i \in DOMAIN DesignInstances}

NodeAt(path) ==
    LET i == CHOOSE j \in DOMAIN DesignInstances : DesignInstances[j].path = path
    IN [name |-> path[Len(path)], def |-> DesignInstances[i].def, kind |-> "Instance"]

GenerateBlock(name) == [name |-> name, def |-> EmptyStr, kind |-> "GenerateBlock"]

\* getType().getBitWidth() of the declared symbols
SymbolWidth(def, sig) ==
    CASE def = nT /\ sig = sc -> 1
      [] def = nS /\ sig = ss -> 4
      [] def = nS /\ sig = sab -> 2
      [] def = nS /\ sig = sb -> 8
      [] def = nK /\ sig = sd -> 1
      [] def = nL /\ sig = se -> 1
      [] OTHER -> 1

\* Ports the modules declare before elimination (none in this design)
ExistingPorts(def) == {}

\* InstanceMapper::handle: (parentModule, instanceName) -> instanceModuleName,
\* recorded for every instance below a module; a later visit overwrites.
RECURSIVE InstanceMapperVisit(_, _)
InstanceMapperVisit(i, map) ==
    IF i > Len(DesignInstances) THEN map
    ELSE LET node == DesignInstances[i]
             p == node.path
         IN IF Len(p) < 2 THEN InstanceMapperVisit(i + 1, map)
            ELSE LET currentModuleName == NodeAt(SubSeq(p, 1, Len(p) - 1)).def
                     key == <<currentModuleName, p[Len(p)]>>
                 IN InstanceMapperVisit(i + 1,
                        [k \in DOMAIN map \cup {key} |->
                            IF k = key THEN node.def ELSE map[k]])

instanceMap == InstanceMapperVisit(1, <<>>)

\* InstancePathFinder: every instance path whose definition is the target,
\* in visit order
InstancePathFinder(target) ==
    LET hits == SelectSeq(DesignInstances, LAMBDA n : n.def = target)
    IN [i \in DOMAIN hits |-> hits[i].path]

\* The sites of the design that hold a hierarchical reference, in the order
\* the detector's visit reaches them: the path of the enclosing instance, the
\* path of the instance that declares the target, "g" when the reference
\* crosses the generate block of M, the target signal, the select written
\* after it, whether the name is resolved from the root scope (an absolute
\* path) and the role of the reference: "read" in an expression that is
\* evaluated, "assignTarget" as the left-hand side of an assignment, or the
\* actual of an input, output or inout formal of a subroutine call.
Site(from, to, block, sig, select, absolute, role) ==
    [from |-> from, to |-> to, block |-> block, sig |-> sig, select |-> select,
     absolute |-> absolute, role |-> role]

Sites ==
    << Site(<<nR>>, <<nT, iu>>, <<>>, ss, <<>>, TRUE, "read"),
       Site(<<nT>>, <<nT, iu>>, <<>>, ss, <<>>, FALSE, "read"),
       Site(<<nT>>, <<nT, iu>>, <<>>, ss, <<>>, FALSE, "outputArg"),
       Site(<<nT>>, <<nT, iu>>, <<>>, ss, Sel0, FALSE, "read"),
       Site(<<nT>>, <<nT, iu>>, <<>>, ss, SelXmr, FALSE, "read"),
       Site(<<nT>>, <<nT, iu>>, <<>>, sab, <<>>, FALSE, "assignTarget"),
       Site(<<nT>>, <<nT, iu>>, <<>>, sab, <<>>, FALSE, "read"),
       Site(<<nT>>, <<nT, iua>>, <<>>, sb, <<>>, FALSE, "inputArg"),
       Site(<<nT>>, <<nT, iua>>, <<>>, sb, <<>>, FALSE, "read"),
       Site(<<nT>>, <<nT, im, iu>>, <<>>, ss, <<>>, FALSE, "inoutArg"),
       Site(<<nT>>, <<nT, im, iu>>, <<>>, ss, <<>>, FALSE, "read"),
       Site(<<nT>>, <<nT, im, iu>>, <<>>, ss, <<>>, FALSE, "outputArg"),
       Site(<<nT>>, <<nT, im, ik>>, blk, sd, <<>>, FALSE, "read"),
       Site(<<nT>>, <<nT, im, ik, iz>>, blk, se, <<>>, FALSE, "read"),
       Site(<<nT>>, <<nT>>, <<>>, sc, <<>>, TRUE, "read"),
       Site(<<nT>>, <<nT>>, <<>>, sc, Sel0, TRUE, "read"),
       Site(<<nT, im>>, <<nT, im, iu>>, <<>>, ss, <<>>, FALSE, "read"),
       Site(<<nT, im>>, <<nT, im, iu>>, <<>>, ss, <<>>, FALSE, "outputArg"),
       Site(<<nT, im, ik>>, <<nT>>, <<>>, sc, <<>>, TRUE, "read"),
       Site(<<nT, im, ik>>, <<nT, iu>>, <<>>, ss, <<>>, TRUE, "read"),
       Site(<<nT, im, ik>>, <<nT, iu>>, <<>>, ss, <<>>, TRUE, "outputArg"),
       Site(<<nT, im, ik>>, <<nT, iu>>, <<>>, ss, Sel0, TRUE, "read"),
       Site(<<nT, im, ik>>, <<nT, im, iu>>, <<>>, ss, <<>>, TRUE, "read"),
       Site(<<nT, im, ik>>, <<nT, ik>>, <<>>, sd, <<>>, TRUE, "read"),
       Site(<<nT, im, ik, iz>>, <<nT, im, ik, iz, iz>>, <<>>, ss, <<>>, FALSE, "read"),
       Site(<<nTu>>, <<nTu, ia>>, <<>>, sb, <<>>, FALSE, "read") >>

\* XMRDetector::handle(CallExpression): the syntax node of an actual whose
\* formal has direction Out or InOut is put into outputArgXMRs
OutputArgXMR(site) == site.role \in {"outputArg", "inoutArg"}

\* The hierarchical value expression the elaborator hands to the detector at
\* a site: the enclosing instance, HierarchicalReference::path and
\* upwardCount, the target symbol, the text of the syntax node and the
\* membership of the node in outputArgXMRs.  A relative name is found below
\* the enclosing instance without going up; an absolute one in the root scope.
\* The path holds the generate block between the instance of M and its child.
HierarchicalValueExpression(site) ==
    LET first == IF site.absolute THEN 1 ELSE Len(site.from) + 1
        instances == [i \in 1..(Len(site.to) - first + 1) |->
                         NodeAt(SubSeq(site.to, 1, first + i - 1))]
        names == [i \in DOMAIN instances |-> instances[i].name]
        crossing == site.block # <<>>
        blockAt == 3 - first
    IN [currentInstance |-> NodeAt(site.from),
        path |-> IF crossing
                 THEN SubSeq(instances, 1, blockAt) \o <<GenerateBlock(site.block)>> \o
                      SubSeq(instances, blockAt + 1, Len(instances))
                 ELSE instances,
        upwardCount |-> IF site.absolute THEN Len(site.from) ELSE 0,
        symbol |-> [name |-> site.sig, width |-> SymbolWidth(NodeAt(site.to).def, site.sig)],
        syntax |-> Join((IF crossing
                         THEN SubSeq(names, 1, blockAt) \o <<site.block>> \o
                              SubSeq(names, blockAt + 1, Len(names))
                         ELSE names) \o <<site.sig>>, Dot) \o site.select,
        outputArg |-> OutputArgXMR(site)]

References == {HierarchicalValueExpression(Sites[i]) : i \in DOMAIN Sites}

-----------------------------------------------------------------------------
(* XMRDetector::handle(HierarchicalValueExpression), XMRDetector.cpp *)

IsSpace(c) == c \in {" ", "\t", "\n", "\r"}

RECURSIVE trim(_)
trim(str) ==
    IF str = <<>> THEN <<>>
    ELSE IF IsSpace(str[1]) THEN trim(Tail(str))
    ELSE IF IsSpace(str[Len(str)]) THEN trim(SubSeq(str, 1, Len(str) - 1))
    ELSE str

\* the loop over hierRef.path that keeps instance symbols and skips the
\* self-reference prefix
RECURSIVE BuildPathSegments(_, _, _, _)
BuildPathSegments(path, i, currentInstName, segs) ==
    IF i > Len(path) THEN segs
    ELSE LET elem == path[i] IN
         IF elem.kind = "Instance"
         THEN IF segs = <<>> /\ elem.name = currentInstName
              THEN BuildPathSegments(path, i + 1, currentInstName, segs)
              ELSE BuildPathSegments(path, i + 1, currentInstName, Append(segs, elem.name))
         ELSE BuildPathSegments(path, i + 1, currentInstName, segs)

\* the reverse scan for the last instance symbol of the path
RECURSIVE LastInstanceDef(_, _)
LastInstanceDef(path, i) ==
    IF i < 1 THEN EmptyStr
    ELSE IF path[i].kind = "Instance" THEN path[i].def
    ELSE LastInstanceDef(path, i - 1)

\* a detector that leaves targetModule unset when no path segment remains
DetectXMRUnsetTarget(expr) ==
    LET moduleName == expr.currentInstance.def
        segs == BuildPathSegments(expr.path, 1, expr.currentInstance.name, <<>>)
    IN [sourceModule |-> moduleName,
        targetModule |-> IF segs # <<>> THEN LastInstanceDef(expr.path, Len(expr.path))
                         ELSE EmptyStr,
        targetSignal |-> expr.symbol.name,
        fullPath |-> trim(expr.syntax),
        pathSegments |-> segs,
        isRead |-> ~expr.outputArg,
        isWrite |-> expr.outputArg,
        isUpwardReference |-> expr.upwardCount > 0,
        upwardCount |-> expr.upwardCount,
        bitWidth |-> expr.symbol.width]

DetectXMR(expr) ==
    LET moduleName == expr.currentInstance.def
        segs == BuildPathSegments(expr.path, 1, expr.currentInstance.name, <<>>)
    IN [sourceModule |-> moduleName,
        targetModule |-> IF segs # <<>> THEN LastInstanceDef(expr.path, Len(expr.path))
                         ELSE moduleName,
        targetSignal |-> expr.symbol.name,
        fullPath |-> trim(expr.syntax),
        pathSegments |-> segs,
        isRead |-> ~expr.outputArg,
        isWrite |-> expr.outputArg,
        isUpwardReference |-> expr.upwardCount > 0,
        upwardCount |-> expr.upwardCount,
        bitWidth |-> expr.symbol.width]

DetectedXMRs == {DetectXMR(e) : e \in References}

-----------------------------------------------------------------------------
(* XMREliminateConfig: pipeline register configuration per source module *)

clockName == <<"c", "l", "k">>
resetName == <<"r", "s", "t", "_", "n">>
resetActiveLow == TRUE

PipeNone == [mode |-> "None", globalRegCount |-> 0, entries |-> <<>>]
createGlobal(regCount) == [mode |-> "Global", globalRegCount |-> regCount, entries |-> <<>>]
createPerModule == [mode |-> "PerModule", globalRegCount |-> 0, entries |-> <<>>]
createSelective(entries) == [mode |-> "Selective", globalRegCount |-> 0, entries |-> entries]

\* XMRPipeRegConfig::isEnabled
isEnabled(pipeConfig) == pipeConfig.mode # "None"

SelectiveEntries ==
    << [moduleName |-> nS, regCount |-> 1, signals |-> <<sab>>],
       [moduleName |-> nS, regCount |-> 0, signals |-> <<>>],
       [moduleName |-> nS, regCount |-> 2, signals |-> <<generatePortName(Join(<<iu, sab>>, Dot))>>] >>

OneModule(mod, pipeConfig) == [m \in {mod} |-> pipeConfig]

\* the pipeRegConfigMap values the planner is run with
PipeRegConfigMaps ==
    { <<>>,
      OneModule(nT, PipeNone),
      OneModule(nT, createGlobal(2)),
      OneModule(nT, createGlobal(0)),
      OneModule(nT, createPerModule),
      OneModule(nT, createSelective(SelectiveEntries)),
      OneModule(nM, createGlobal(1)),
      OneModule(nK, createGlobal(1)) }

-----------------------------------------------------------------------------
(* XMRChangeSet and its containers, XMRTypes.h *)

EmptyChangeSet ==
    [portsToAdd |-> <<>>, assignsToAdd |-> <<>>, wiresToAdd |-> <<>>,
     pipeRegsToAdd |-> <<>>, connectionChanges |-> <<>>, xmrReplacements |-> <<>>]

\* the vector stored under a key of an unordered_map, empty when absent
At(map, key) == IF key \in DOMAIN map THEN map[key] ELSE <<>>

\* map[key].push_back(elem)
PushBack(map, key, elem) ==
    [k \in DOMAIN map \cup {key} |-> IF k = key THEN Append(At(map, key), elem) ELSE map[k]]

\* map[key] = value
Assign(map, key, value) ==
    [k \in DOMAIN map \cup {key} |-> IF k = key THEN value ELSE map[k]]

\* push_back of every PortChange of a sequence under its moduleName
RECURSIVE PushPorts(_, _)
PushPorts(map, ports) ==
    IF ports = <<>> THEN map
    ELSE PushPorts(PushBack(map, ports[1].moduleName, ports[1]), Tail(ports))

PortChange(mod, name, dir, width, sig) ==
    [moduleName |-> mod, portName |-> name, direction |-> dir, bitWidth |-> width,
     signalToAssign |-> sig]

ConnectionChange(parent, inst, instModule, port, signal) ==
    [parentModule |-> parent, instanceName |-> inst, instanceModule |-> instModule,
     portName |-> port, signalName |-> signal]

WireDecl(mod, name, width) == [moduleName |-> mod, wireName |-> name, bitWidth |-> width]

PipeRegDecl(xmr, port, regCount) ==
    [moduleName |-> xmr.targetModule, inputSignal |-> xmr.targetSignal,
     outputSignal |-> port, bitWidth |-> xmr.bitWidth, regCount |-> regCount,
     clockName |-> clockName, resetName |-> resetName, resetActiveLow |-> resetActiveLow]

-----------------------------------------------------------------------------
(* computeXMRChanges, XMRChangeSet.cpp *)

\* basePath, arraySuffix and portName of every reference text of the design,
\* computed once
PathNames ==
    [fullPath \in {x.fullPath : x \in DetectedXMRs} |->
        [basePath |-> extractBasePath(fullPath),
         arraySuffix |-> extractArraySuffix(fullPath),
         portName |-> generatePortName(extractBasePath(fullPath))]]

basePathOf(xmr) == PathNames[xmr.fullPath].basePath
arraySuffixOf(xmr) == PathNames[xmr.fullPath].arraySuffix
portNameOf(xmr) == PathNames[xmr.fullPath].portName

\* Variants of the planner's operators, used to show that the properties below
\* depend on the operators they are about.
replacementWithoutSuffix(xmr) == portNameOf(xmr)

RECURSIVE WalkDownwardNoPassPort(_, _, _, _)
WalkDownwardNoPassPort(xmr, portName, i, currentModule) ==
    IF i > Len(xmr.pathSegments) THEN [conns |-> <<>>, ports |-> <<>>]
    ELSE LET instName == xmr.pathSegments[i] IN
         IF <<currentModule, instName>> \notin DOMAIN instanceMap
         THEN [conns |-> <<>>, ports |-> <<>>]
         ELSE LET instModuleName == instanceMap[<<currentModule, instName>>]
                  conn == ConnectionChange(currentModule, instName, instModuleName, portName, portName)
                  rest == WalkDownwardNoPassPort(xmr, portName, i + 1, instModuleName)
              IN [conns |-> <<conn>> \o rest.conns, ports |-> rest.ports]

TargetPortAlwaysOutput(xmr, portName) ==
    PortChange(xmr.targetModule, portName, dirOutput, xmr.bitWidth, xmr.targetSignal)

TargetAssignAsRead(xmr, portName) == AssignText(portName, xmr.targetSignal)

SelfReferenceWithPort(xmr, cs) ==
    [cs EXCEPT
        !.xmrReplacements = Assign(@, <<xmr.sourceModule, xmr.fullPath>>, xmr.targetSignal),
        !.portsToAdd = PushBack(@, xmr.sourceModule,
                           PortChange(xmr.sourceModule, portNameOf(xmr), dirInput,
                                      xmr.bitWidth, EmptyStr))]

replacementName(xmr) ==
    IF arraySuffixOf(xmr) = <<>> THEN portNameOf(xmr) ELSE portNameOf(xmr) \o arraySuffixOf(xmr)

basePathKey(xmr) == xmr.sourceModule \o <<":", ":">> \o basePathOf(xmr)

\* the first entry of the sorted instanceMap whose instance name is the root
\* segment gives the module definition; the segment itself when there is none
FirstModuleDef(rootModuleName) ==
    LET keys == {k \in DOMAIN instanceMap : k[2] = rootModuleName} IN
    IF keys = {} THEN rootModuleName
    ELSE LET first == CHOOSE k \in keys : \A o \in keys : o = k \/ StrLess(k[1], o[1])
         IN IF instanceMap[first] = EmptyStr THEN rootModuleName ELSE instanceMap[first]

\* the loop "Trace the XMR path to add output ports" of an upward reference
RECURSIVE TraceUpwardPath(_, _, _, _)
TraceUpwardPath(xmr, portName, i, currentModule) ==
    IF i > Len(xmr.pathSegments) THEN [conns |-> <<>>, ports |-> <<>>]
    ELSE LET instName == xmr.pathSegments[i] IN
         IF <<currentModule, instName>> \notin DOMAIN instanceMap
         THEN [conns |-> <<>>, ports |-> <<>>]
         ELSE LET instModuleName == instanceMap[<<currentModule, instName>>]
                  conn == ConnectionChange(currentModule, instName, instModuleName, portName, portName)
                  outPort == PortChange(instModuleName, portName, dirOutput, xmr.bitWidth, EmptyStr)
                  rest == TraceUpwardPath(xmr, portName, i + 1, instModuleName)
              IN [conns |-> <<conn>> \o rest.conns, ports |-> <<outPort>> \o rest.ports]

\* the loop "Walk the hierarchy from source to target" of a downward reference
RECURSIVE WalkDownward(_, _, _, _)
WalkDownward(xmr, portName, i, currentModule) ==
    IF i > Len(xmr.pathSegments) THEN [conns |-> <<>>, ports |-> <<>>]
    ELSE LET instName == xmr.pathSegments[i] IN
         IF <<currentModule, instName>> \notin DOMAIN instanceMap
         THEN [conns |-> <<>>, ports |-> <<>>]
         ELSE LET instModuleName == instanceMap[<<currentModule, instName>>]
                  conn == ConnectionChange(currentModule, instName, instModuleName, portName, portName)
                  passPort == PortChange(instModuleName, portName,
                                         IF xmr.isWrite THEN dirInput ELSE dirOutput,
                                         xmr.bitWidth, EmptyStr)
                  rest == WalkDownward(xmr, portName, i + 1, instModuleName)
              IN [conns |-> <<conn>> \o rest.conns,
                  ports |-> (IF i < Len(xmr.pathSegments) THEN <<passPort>> ELSE <<>>) \o rest.ports]

\* "Add port and assign in target module"
TargetPort(xmr, portName) ==
    PortChange(xmr.targetModule, portName, IF xmr.isWrite THEN dirInput ELSE dirOutput,
               xmr.bitWidth, xmr.targetSignal)

TargetAssign(xmr, portName) ==
    IF xmr.isWrite THEN AssignText(xmr.targetSignal, portName)
    ELSE AssignText(portName, xmr.targetSignal)

\* Selective mode: the sum of regCount over the matching entries
RECURSIVE SelectiveTotalRegs(_, _, _, _)
SelectiveTotalRegs(entries, i, xmr, portName) ==
    IF i > Len(entries) THEN 0
    ELSE LET entry == entries[i]
             matchesSignal ==
                 \/ entry.signals = <<>>
                 \/ \E j \in DOMAIN entry.signals :
                       entry.signals[j] = portName \/ entry.signals[j] = xmr.targetSignal
             rest == SelectiveTotalRegs(entries, i + 1, xmr, portName)
         IN IF entry.regCount <= 0 THEN rest
            ELSE IF matchesSignal THEN entry.regCount + rest ELSE rest

\* "Add pipeline registers based on configuration": the stage count recorded,
\* 0 when no entry is recorded
PipelineStages(pipeConfig, xmr, portName) ==
    IF pipeConfig.mode = "Global" /\ pipeConfig.globalRegCount > 0 THEN pipeConfig.globalRegCount
    ELSE IF pipeConfig.mode = "PerModule" THEN Len(xmr.pathSegments)
    ELSE IF pipeConfig.mode = "Selective"
         THEN SelectiveTotalRegs(pipeConfig.entries, 1, xmr, portName)
         ELSE 0

RecordsPipeReg(pipeConfig, xmr, portName) ==
    \/ pipeConfig.mode = "Global" /\ pipeConfig.globalRegCount > 0
    \/ pipeConfig.mode = "PerModule"
    \/ pipeConfig.mode = "Selective" /\ SelectiveTotalRegs(pipeConfig.entries, 1, xmr, portName) > 0

\* upward reference handling
UpwardChanges(xmr, cs) ==
    LET portName == portNameOf(xmr)
        firstModuleDef == FirstModuleDef(xmr.pathSegments[1])
        inPort == PortChange(xmr.sourceModule, portName, dirInput, xmr.bitWidth, EmptyStr)
        foundPaths == InstancePathFinder(xmr.sourceModule)
        wired == foundPaths # <<>> /\ Len(foundPaths[1]) >= 2
        sourceInstName == foundPaths[1][Len(foundPaths[1])]
        trace == TraceUpwardPath(xmr, portName, 2, firstModuleDef)
    IN [cs EXCEPT
          !.portsToAdd = PushPorts(@, <<inPort>> \o trace.ports),
          !.wiresToAdd = IF wired
                         THEN PushBack(@, firstModuleDef, WireDecl(firstModuleDef, portName, xmr.bitWidth))
                         ELSE @,
          !.connectionChanges =
              @ \o (IF wired
                    THEN <<ConnectionChange(firstModuleDef, sourceInstName, xmr.sourceModule,
                                            portName, portName)>>
                    ELSE <<>>) \o trace.conns,
          !.assignsToAdd = IF xmr.targetModule # EmptyStr
                           THEN PushBack(@, xmr.targetModule, AssignText(portName, xmr.targetSignal))
                           ELSE @]

\* downward reference handling
DownwardChanges(xmr, cs, pipeMap) ==
    LET portName == portNameOf(xmr)
        walk == WalkDownward(xmr, portName, 1, xmr.sourceModule)
        configured == xmr.sourceModule \in DOMAIN pipeMap
        hasPipelineRegs == configured /\ isEnabled(pipeMap[xmr.sourceModule])
        hasTarget == xmr.targetModule # EmptyStr
        pipeReg == configured /\ RecordsPipeReg(pipeMap[xmr.sourceModule], xmr, portName)
    IN [cs EXCEPT
          !.wiresToAdd = PushBack(@, xmr.sourceModule, WireDecl(xmr.sourceModule, portName, xmr.bitWidth)),
          !.connectionChanges = @ \o walk.conns,
          !.portsToAdd = PushPorts(@, walk.ports \o
                             (IF hasTarget THEN <<TargetPort(xmr, portName)>> ELSE <<>>)),
          !.assignsToAdd = IF hasTarget /\ ~hasPipelineRegs
                           THEN PushBack(@, xmr.targetModule, TargetAssign(xmr, portName))
                           ELSE @,
          !.pipeRegsToAdd = IF pipeReg
                            THEN PushBack(@, xmr.targetModule,
                                     PipeRegDecl(xmr, portName,
                                         PipelineStages(pipeMap[xmr.sourceModule], xmr, portName)))
                            ELSE @]

\* "Handle self-reference XMRs": just replace the XMR with the signal name
SelfReferenceChanges(xmr, cs) ==
    [cs EXCEPT !.xmrReplacements =
        Assign(@, <<xmr.sourceModule, xmr.fullPath>>, xmr.targetSignal)]

\* "Store the XMR replacement mapping"
StoreReplacement(xmr, cs) ==
    [cs EXCEPT !.xmrReplacements =
        Assign(@, <<xmr.sourceModule, xmr.fullPath>>, replacementName(xmr))]

\* The branch the loop body takes for an XMR
Branch(xmr, seenXMRs, seenBasePaths) ==
    IF getUniqueId(xmr) \in seenXMRs THEN "skip"
    ELSE IF xmr.pathSegments = <<>> THEN "self"
    ELSE IF basePathKey(xmr) \in seenBasePaths THEN "shared"
    ELSE IF xmr.isUpwardReference THEN "upward"
    ELSE "downward"

\* One iteration of "for (const auto &xmr : xmrInfos)" on the loop's locals
LoopBody(xmr, st, pipeMap) ==
    LET branch == Branch(xmr, st.processedXMRs, st.processedBasePaths)
        ids == st.processedXMRs \cup {getUniqueId(xmr)}
        keys == st.processedBasePaths \cup {basePathKey(xmr)}
    IN CASE branch = "skip" -> st
         [] branch = "self" ->
              [st EXCEPT !.processedXMRs = ids, !.changes = SelfReferenceChanges(xmr, @)]
         [] branch = "shared" ->
              [st EXCEPT !.processedXMRs = ids, !.changes = StoreReplacement(xmr, @)]
         [] branch = "upward" ->
              [processedXMRs |-> ids, processedBasePaths |-> keys,
               changes |-> UpwardChanges(xmr, StoreReplacement(xmr, st.changes))]
         [] branch = "downward" ->
              [processedXMRs |-> ids, processedBasePaths |-> keys,
               changes |-> DownwardChanges(xmr, StoreReplacement(xmr, st.changes), pipeMap)]

\* "Deduplicate all changes": the first element of every key is kept
RECURSIVE DedupScan(_, _, _, _, _)
DedupScan(keys, items, i, seen, unique) ==
    IF i > Len(items) THEN unique
    ELSE IF keys[i] \in seen THEN DedupScan(keys, items, i + 1, seen, unique)
    ELSE DedupScan(keys, items, i + 1, seen \cup {keys[i]}, Append(unique, items[i]))

PortKey(p) == p.portName \o p.direction
WireKey(w) == w.wireName
ConnKey(c) == c.parentModule \o Dot \o c.instanceName \o Dot \o c.portName
PipeRegKey(p) == p.outputSignal

DedupPorts(ports) ==
    DedupScan([i \in DOMAIN ports |-> PortKey(ports[i])], ports, 1, {}, <<>>)
DedupWires(wires) ==
    DedupScan([i \in DOMAIN wires |-> WireKey(wires[i])], wires, 1, {}, <<>>)
DedupConnections(conns) ==
    DedupScan([i \in DOMAIN conns |-> ConnKey(conns[i])], conns, 1, {}, <<>>)
DedupPipeRegs(pipeRegs) ==
    DedupScan([i \in DOMAIN pipeRegs |-> PipeRegKey(pipeRegs[i])], pipeRegs, 1, {}, <<>>)

DeduplicateChanges(cs) ==
    [cs EXCEPT
        !.portsToAdd = [m \in DOMAIN @ |-> DedupPorts(@[m])],
        !.wiresToAdd = [m \in DOMAIN @ |-> DedupWires(@[m])],
        !.connectionChanges = DedupConnections(@),
        !.pipeRegsToAdd = [m \in DOMAIN @ |-> DedupPipeRegs(@[m])]]

\* computeXMRChanges as a function of its arguments: the loop over the list,
\* then the deduplication
RECURSIVE LoopFrom(_, _, _, _)
LoopFrom(infos, i, st, pipeMap) ==
    IF i > Len(infos) THEN st
    ELSE LoopFrom(infos, i + 1, LoopBody(infos[i], st, pipeMap), pipeMap)

computeXMRChanges(infos, pipeMap) ==
    DeduplicateChanges(
        LoopFrom(infos, 1,
                 [processedXMRs |-> {}, processedBasePaths |-> {}, changes |-> EmptyChangeSet],
                 pipeMap).changes)

-----------------------------------------------------------------------------
(* The design as xmrEliminate sees it: top modules, declared signals, the   *)
(* syntax trees of the input files                                          *)

\* TopModuleDetector::handle over the instances, then detectTopModules: the
\* definitions that no other definition instantiates, sorted
RECURSIVE SortNames(_)
SortNames(names) ==
    IF names = {} THEN <<>>
    ELSE LET least == CHOOSE n \in names : \A o \in names : o = n \/ StrLess(n, o)
         IN <<least>> \o SortNames(names \ {least})

ParentDef(i) ==
    IF Len(DesignInstances[i].path) = 1 THEN EmptyStr
    ELSE NodeAt(SubSeq(DesignInstances[i].path, 1, Len(DesignInstances[i].path) - 1)).def

detectTopModules ==
    LET allModules == {DesignInstances[i].def : i \in DOMAIN DesignInstances}
        instantiatedModules ==
            {DesignInstances[i].def : i \in {j \in DOMAIN DesignInstances :
                ParentDef(j) # EmptyStr /\ DesignInstances[j].def # ParentDef(j)}}
    IN SortNames(allModules \ instantiatedModules)

\* the modules of the design that declare the clock and the reset signal, as
\* the input files may have them
ClockedDesigns ==
    { [withClock |-> Modules, withReset |-> Modules],
      [withClock |-> Modules \ {nS, nL}, withReset |-> Modules],
      [withClock |-> Modules, withReset |-> Modules \ {nS}],
      [withClock |-> Modules \ {nT}, withReset |-> Modules \ {nT}] }

\* the instantiation statements of the module definitions: parent
\* definition, instantiated type, instance name (M holds both branches of its
\* generate block)
Instantiations ==
    {<<ParentDef(i), DesignInstances[i].def, NodeAt(DesignInstances[i].path).name>> :
        i \in {j \in DOMAIN DesignInstances : ParentDef(j) # EmptyStr}}

\* the syntax trees of the input: the text of every reference site, what the
\* rewriter has inserted into every module, the port bindings it has added
\* to every instantiation
OriginalTrees ==
    [texts |-> [i \in DOMAIN Sites |-> HierarchicalValueExpression(Sites[i]).syntax],
     members |-> [m \in Modules |-> [wires |-> <<>>, ports |-> <<>>, assigns |-> <<>>,
                                     pipeRegs |-> <<>>]],
     bindings |-> [inst \in Instantiations |-> <<>>]]

-----------------------------------------------------------------------------
(* generatePipelineRegisters, XMREliminate.cpp: the text it returns is kept *)
(* as the sequence of its statements                                        *)

\* fmt::format("{}", n) of an int
RECURSIVE FormatInt(_)
FormatInt(n) ==
    IF n < 0 THEN <<"-">> \o FormatInt(0 - n)
    ELSE IF n < 10 THEN <<<<"0">>, <<"1">>, <<"2">>, <<"3">>, <<"4">>,
                          <<"5">>, <<"6">>, <<"7">>, <<"8">>, <<"9">>>>[n + 1]
    ELSE FormatInt(n \div 10) \o FormatInt(n % 10)

\* "{}_pipe_{}"
PipeName(regBaseName, i) == regBaseName \o <<"_", "p", "i", "p", "e", "_">> \o FormatInt(i)

\* "reg {}{}_pipe_{};" with widthSpec "[bitWidth-1:0] " when bitWidth > 1
RegDecl(regBaseName, i, bitWidth) ==
    [kind |-> "reg", name |-> PipeName(regBaseName, i),
     width |-> IF bitWidth > 1 THEN bitWidth ELSE 1]

\* "always @(posedge {} or {} {}) begin"
AlwaysHeader(clock, reset, activeLow) ==
    [kind |-> "always", clock |-> clock,
     resetEdge |-> IF activeLow THEN "negedge" ELSE "posedge", reset |-> reset]

\* "if ({}) begin" with resetCond "!reset" or "reset"
IfReset(reset, activeLow) == [kind |-> "if", negated |-> activeLow, signal |-> reset]

\* "{}_pipe_{} <= {}'h0;" in the reset branch
ResetValue(regBaseName, i, bitWidth) ==
    [kind |-> "nonblocking", branch |-> "if", lhs |-> PipeName(regBaseName, i),
     rhs |-> [literal |-> 0, width |-> bitWidth]]

\* a stage that keeps its own value
ChainHolds(regBaseName, i, inputSignal) ==
    [kind |-> "nonblocking", branch |-> "else", lhs |-> PipeName(regBaseName, i),
     rhs |-> [signal |-> PipeName(regBaseName, i)]]

\* "{}_pipe_0 <= {};" and "{}_pipe_{} <= {}_pipe_{};" in the else branch
ChainStage(regBaseName, i, inputSignal) ==
    [kind |-> "nonblocking", branch |-> "else", lhs |-> PipeName(regBaseName, i),
     rhs |-> [signal |-> IF i = 0 THEN inputSignal ELSE PipeName(regBaseName, i - 1)]]

\* "assign {} = {}_pipe_{};"
OutputAssign(outputSignal, regBaseName, regCount) ==
    [kind |-> "assign", lhs |-> outputSignal,
     rhs |-> [signal |-> PipeName(regBaseName, regCount - 1)]]

generatePipelineRegisters(inputSignal, outputSignal, bitWidth, regCount, clock, reset, activeLow) ==
    IF regCount <= 0 THEN <<>>
    ELSE LET regBaseName == outputSignal IN
         [i \in 1..regCount |-> RegDecl(regBaseName, i - 1, bitWidth)] \o
         <<AlwaysHeader(clock, reset, activeLow), IfReset(reset, activeLow)>> \o
         [i \in 1..regCount |-> ResetValue(regBaseName, i - 1, bitWidth)] \o
         [i \in 1..regCount |-> ChainStage(regBaseName, i - 1, inputSignal)] \o
         <<OutputAssign(outputSignal, regBaseName, regCount)>>

-----------------------------------------------------------------------------
(* The hardware the returned text describes: the regs it declares, its      *)
(* always block with nonblocking assignments and its continuous assign      *)

Pow2(n) == IF n <= 0 THEN 1 ELSE 2 ^ n

Statements(text, kind) == {k \in DOMAIN text : text[k].kind = kind}

RegNames(text) == {text[k].name : k \in Statements(text, "reg")}

RegWidth(text, name) ==
    text[CHOOSE k \in Statements(text, "reg") : text[k].name = name].width

\* the value of the right-hand side of an assignment
ValueOf(rhs, env) ==
    IF "literal" \in DOMAIN rhs THEN rhs.literal % Pow2(rhs.width) ELSE env[rhs.signal]

\* the condition of the if statement of the always block
ResetCond(text, env) ==
    LET cond == text[CHOOSE k \in Statements(text, "if") : TRUE]
    IN IF cond.negated THEN env[cond.signal] = 0 ELSE env[cond.signal] = 1

\* One activation of the always block: every nonblocking assignment of the
\* branch taken reads the values before the activation; where a reg is
\* assigned more than once the last assignment wins; other regs keep their value.
RunAlways(text, env) ==
    LET branch == IF ResetCond(text, env) THEN "if" ELSE "else"
        assigns(r) == {k \in Statements(text, "nonblocking") :
                          text[k].branch = branch /\ text[k].lhs = r}
        last(r) == CHOOSE k \in assigns(r) : \A o \in assigns(r) : o <= k
    IN [r \in RegNames(text) |->
           IF assigns(r) = {} THEN env[r]
           ELSE ValueOf(text[last(r)].rhs, env) % Pow2(RegWidth(text, r))]

\* the signals the always block reads: the regs, the input and the reset
Env(regValues, inputSignal, inputValue, reset, resetLevel) ==
    [n \in DOMAIN regValues \cup {inputSignal, reset} |->
        IF n \in DOMAIN regValues THEN regValues[n]
        ELSE IF n = inputSignal THEN inputValue ELSE resetLevel]

\* the value the continuous assign drives on the output
OutputValue(text, regValues) ==
    ValueOf(text[CHOOSE k \in Statements(text, "assign") : TRUE].rhs, regValues)

\* the edge of the reset signal the always block is sensitive to
IsResetEdge(text, from, to) ==
    LET header == text[CHOOSE k \in Statements(text, "always") : TRUE]
    IN IF header.resetEdge = "negedge" THEN from = 1 /\ to = 0 ELSE from = 0 /\ to = 1

\* the last n elements of a sequence
LastN(seq, n) == IF Len(seq) <= n THEN seq ELSE SubSeq(seq, Len(seq) - n + 1, Len(seq))

-----------------------------------------------------------------------------
(* The state machine of a call of generatePipelineRegisters followed by the *)
(* clock and reset events of the hardware it describes                      *)

NoCall ==
    [inputSignal |-> EmptyStr, outputSignal |-> EmptyStr, bitWidth |-> 0, regCount |-> 0,
     clockName |-> EmptyStr, resetName |-> EmptyStr, resetActiveLow |-> TRUE]

\* the calls the emission makes: the input is the target signal, the output
\* the port, the width and stage count those of a PipeRegDecl
PipeCalls ==
    [inputSignal : {ss}, outputSignal : {generatePortName(Join(<<iu, ss>>, Dot))},
     bitWidth : 1..MaxWidth, regCount : (0 - 1)..MaxStages,
     clockName : {clockName}, resetName : {resetName}, resetActiveLow : BOOLEAN]

PipeIdle ==
    /\ call = NoCall
    /\ rtl = <<>>
    /\ regs = <<>>
    /\ rst = 1
    /\ sampled = <<>>

NoRun ==
    [inputFiles |-> "none", topModule |-> EmptyStr, modules |-> {},
     withClock |-> {}, withReset |-> {}]

NoResult ==
    [modifiedFiles |-> <<>>, eliminatedXMRs |-> <<>>, errors |-> <<>>, warnings |-> <<>>,
     detectedTopModules |-> <<>>, usedTopModule |-> EmptyStr]

ElimIdle ==
    /\ input = NoRun
    /\ runResult = NoResult
    /\ trees = OriginalTrees
    /\ rewriter = {}

NoName == <<"?">>

NoSplit == [base |-> <<"?">>, suffix |-> <<"?">>]

NameIdle ==
    /\ pathString = <<>>
    /\ generatedName = NoName
    /\ split = NoSplit

PlannerIdle ==
    /\ xmrInfos = <<>>
    /\ config = <<>>
    /\ idx = 1
    /\ processedXMRs = {}
    /\ processedBasePaths = {}
    /\ changes = EmptyChangeSet

PipeInit ==
    /\ PlannerIdle
    /\ ElimIdle
    /\ NameIdle
    /\ pc = "generate"
    /\ call \in PipeCalls
    /\ rtl = <<>>
    /\ regs = <<>>
    /\ rst = IF call.resetActiveLow THEN 1 ELSE 0
    /\ sampled = <<>>

\* the call returns its text; the regs it declares hold any value
Generate ==
    LET text == generatePipelineRegisters(call.inputSignal, call.outputSignal, call.bitWidth,
                                          call.regCount, call.clockName, call.resetName,
                                          call.resetActiveLow)
    IN /\ pc = "generate"
       /\ rtl' = text
       /\ regs' \in [RegNames(text) -> 0..(Pow2(call.bitWidth) - 1)]
       /\ pc' = "simulate"
       /\ UNCHANGED <<call, rst, sampled>>
       /\ UNCHANGED <<xmrInfos, config, idx, processedXMRs, processedBasePaths, changes>>
       /\ UNCHANGED <<elimVars, nameVars>>

\* posedge of the clock while the input holds inputValue
ClockEdge ==
    /\ pc = "simulate"
    /\ rtl # <<>>
    /\ \E inputValue \in 0..(Pow2(call.bitWidth) - 1) :
          LET env == Env(regs, call.inputSignal, inputValue, call.resetName, rst)
          IN /\ regs' = RunAlways(rtl, env)
             /\ sampled' = IF ResetCond(rtl, env) THEN <<>>
                           ELSE LastN(Append(sampled, inputValue), call.regCount)
    /\ UNCHANGED <<call, rtl, rst>>
    /\ UNCHANGED <<plannerVars, elimVars, nameVars>>

\* an edge of the reset signal
ResetEdge ==
    /\ pc = "simulate"
    /\ rtl # <<>>
    /\ rst' = 1 - rst
    /\ \E inputValue \in 0..(Pow2(call.bitWidth) - 1) :
          LET env == Env(regs, call.inputSignal, inputValue, call.resetName, 1 - rst)
          IN /\ regs' = IF IsResetEdge(rtl, rst, 1 - rst) THEN RunAlways(rtl, env) ELSE regs
             /\ sampled' = IF ResetCond(rtl, env) THEN <<>> ELSE sampled
    /\ UNCHANGED <<call, rtl>>
    /\ UNCHANGED <<plannerVars, elimVars, nameVars>>

PipeNext ==
    \/ Generate
    \/ ClockEdge
    \/ ResetEdge

PipeSpec == PipeInit /\ [][PipeNext]_vars

-----------------------------------------------------------------------------
(* The state machine: the call computeXMRChanges(xmrInfos, compilation, config) *)

Init ==
    /\ xmrInfos \in UNION {[1..n -> DetectedXMRs] : n \in 0..MaxXmrs}
    /\ config \in PipeRegConfigMaps
    /\ idx = 1
    /\ pc = "loop"
    /\ processedXMRs = {}
    /\ processedBasePaths = {}
    /\ changes = EmptyChangeSet
    /\ PipeIdle
    /\ ElimIdle
    /\ NameIdle

\* the loop is at element idx, whose iteration takes the given branch
AtBranch(branch) ==
    /\ pc = "loop"
    /\ idx <= Len(xmrInfos)
    /\ Branch(xmrInfos[idx], processedXMRs, processedBasePaths) = branch

\* if (processedXMRs.count(xmrKey) > 0) continue;
SkipProcessed ==
    /\ AtBranch("skip")
    /\ idx' = idx + 1
    /\ UNCHANGED <<xmrInfos, config, pc, processedXMRs, processedBasePaths, changes>>
    /\ UNCHANGED <<pipeVars, elimVars, nameVars>>

\* if (xmr.pathSegments.empty()) { xmrReplacements[...] = targetSignal; continue; }
SelfReference ==
    /\ AtBranch("self")
    /\ processedXMRs' = processedXMRs \cup {getUniqueId(xmrInfos[idx])}
    /\ changes' = SelfReferenceChanges(xmrInfos[idx], changes)
    /\ idx' = idx + 1
    /\ UNCHANGED <<xmrInfos, config, pc, processedBasePaths>>
    /\ UNCHANGED <<pipeVars, elimVars, nameVars>>

\* if (processedBasePaths.count(basePathKey) > 0) continue;
SharedBasePath ==
    /\ AtBranch("shared")
    /\ processedXMRs' = processedXMRs \cup {getUniqueId(xmrInfos[idx])}
    /\ changes' = StoreReplacement(xmrInfos[idx], changes)
    /\ idx' = idx + 1
    /\ UNCHANGED <<xmrInfos, config, pc, processedBasePaths>>
    /\ UNCHANGED <<pipeVars, elimVars, nameVars>>

\* if (xmr.isUpwardReference) { ... continue; }
RouteUpward ==
    /\ AtBranch("upward")
    /\ processedXMRs' = processedXMRs \cup {getUniqueId(xmrInfos[idx])}
    /\ processedBasePaths' = processedBasePaths \cup {basePathKey(xmrInfos[idx])}
    /\ changes' = UpwardChanges(xmrInfos[idx], StoreReplacement(xmrInfos[idx], changes))
    /\ idx' = idx + 1
    /\ UNCHANGED <<xmrInfos, config, pc>>
    /\ UNCHANGED <<pipeVars, elimVars, nameVars>>

\* downward reference handling, pipeline registers included
RouteDownward ==
    /\ AtBranch("downward")
    /\ processedXMRs' = processedXMRs \cup {getUniqueId(xmrInfos[idx])}
    /\ processedBasePaths' = processedBasePaths \cup {basePathKey(xmrInfos[idx])}
    /\ changes' = DownwardChanges(xmrInfos[idx], StoreReplacement(xmrInfos[idx], changes), config)
    /\ idx' = idx + 1
    /\ UNCHANGED <<xmrInfos, config, pc>>
    /\ UNCHANGED <<pipeVars, elimVars, nameVars>>

Deduplicate ==
    /\ pc = "loop"
    /\ idx > Len(xmrInfos)
    /\ changes' = DeduplicateChanges(changes)
    /\ pc' = "done"
    /\ UNCHANGED <<xmrInfos, config, idx, processedXMRs, processedBasePaths>>
    /\ UNCHANGED <<pipeVars, elimVars, nameVars>>

Next ==
    \/ SkipProcessed
    \/ SelfReference
    \/ SharedBasePath
    \/ RouteUpward
    \/ RouteDownward
    \/ Deduplicate

Spec == Init /\ [][Next]_vars

Returned == pc = "done"

\* the loop and the function of the whole call agree
ReturnsComputed == Returned => changes = computeXMRChanges(xmrInfos, config)

-----------------------------------------------------------------------------
(* XMRRewriterFirst and XMRRewriterSecond, XMRRewriter.cpp *)

\* XMRRewriterFirst::handle(ScopedNameSyntax): the text that stands at a
\* reference site of moduleName after the pass, the replacement with a
\* leading space or the text itself
ReplaceScopedName(cs, moduleName, text) ==
    LET fullName == trim(text)
        basePath == extractBasePath(fullName)
        arraySuffix == extractArraySuffix(fullName)
    IN IF <<moduleName, fullName>> \in DOMAIN cs.xmrReplacements
       THEN <<" ">> \o cs.xmrReplacements[<<moduleName, fullName>>]
       ELSE IF <<moduleName, basePath>> \in DOMAIN cs.xmrReplacements
       THEN LET replacementBase == extractBasePath(cs.xmrReplacements[<<moduleName, basePath>>])
            IN <<" ">> \o (IF arraySuffix = <<>> THEN replacementBase
                           ELSE replacementBase \o arraySuffix)
       ELSE text

\* XMRRewriterFirst::handle(ModuleDeclarationSyntax): what the pass inserts
\* into a module
AddModuleMembers(cs, moduleName, members) ==
    LET ports == At(cs.portsToAdd, moduleName)
        assigns == At(cs.assignsToAdd, moduleName)
        wires == At(cs.wiresToAdd, moduleName)
        pipes == At(cs.pipeRegsToAdd, moduleName)
        isPort(w) == \E k \in DOMAIN ports : ports[k].portName = w.wireName
        pipeCode(p) == generatePipelineRegisters(p.inputSignal, p.outputSignal, p.bitWidth,
                                                 p.regCount, p.clockName, p.resetName,
                                                 p.resetActiveLow)
    IN IF ports = <<>> /\ assigns = <<>> /\ wires = <<>> THEN members
       ELSE [wires |-> members.wires \o SelectSeq(wires, LAMBDA w : ~isPort(w)),
             ports |-> members.ports \o ports,
             assigns |-> members.assigns \o assigns,
             pipeRegs |-> members.pipeRegs \o
                          SelectSeq([k \in DOMAIN pipes |-> pipeCode(pipes[k])],
                                    LAMBDA code : code # <<>>)]

\* XMRRewriterFirst::transform on the trees
TransformFirst(cs, tr) ==
    [tr EXCEPT
        !.members = [m \in DOMAIN @ |-> AddModuleMembers(cs, m, @[m])],
        !.texts = [i \in DOMAIN @ |-> ReplaceScopedName(cs, NodeAt(Sites[i].from).def, @[i])]]

\* the instantiation statements in the order the rewriter visits them
RECURSIVE InstantiationOrder(_, _)
InstantiationOrder(i, seen) ==
    IF i > Len(DesignInstances) THEN <<>>
    ELSE LET stmt == <<ParentDef(i), DesignInstances[i].def, NodeAt(DesignInstances[i].path).name>>
         IN IF ParentDef(i) = EmptyStr \/ stmt \in seen THEN InstantiationOrder(i + 1, seen)
            ELSE <<stmt>> \o InstantiationOrder(i + 1, seen \cup {stmt})

\* the loop over the ConnectionChanges of one instance: a connection whose
\* key is in processedConnections is skipped, any other is appended
RECURSIVE AddConnections(_, _, _, _, _)
AddConnections(conns, k, stmt, bound, processed) ==
    IF k > Len(conns) THEN [bound |-> bound, processed |-> processed]
    ELSE LET conn == conns[k]
             connKey == stmt[1] \o Dot \o stmt[3] \o Dot \o conn.portName
         IN IF conn.parentModule # stmt[1] \/ conn.instanceModule # stmt[2]
               \/ conn.instanceName # stmt[3] \/ connKey \in processed
            THEN AddConnections(conns, k + 1, stmt, bound, processed)
            ELSE AddConnections(conns, k + 1, stmt,
                                Append(bound, [portName |-> conn.portName,
                                               signalName |-> conn.signalName]),
                                processed \cup {connKey})

\* XMRRewriterSecond::transform on the trees by a rewriter whose
\* processedConnections is the given set
RECURSIVE TransformSecond(_, _, _, _)
TransformSecond(cs, tr, processed, stmts) ==
    IF stmts = <<>> THEN [trees |-> tr, processed |-> processed]
    ELSE LET stmt == stmts[1]
             added == AddConnections(cs.connectionChanges, 1, stmt, tr.bindings[stmt], processed)
         IN TransformSecond(cs, [tr EXCEPT !.bindings[stmt] = added.bound],
                            added.processed, Tail(stmts))

-----------------------------------------------------------------------------
(* xmrEliminate, XMREliminate.cpp *)

Error(kind, subject) == [kind |-> kind, subject |-> subject]

\* ClockResetVerifier and verifyClockResetSignals: the errors for the keys
\* of pipeRegConfigMap whose configuration is enabled
RECURSIVE verifyClockResetSignals(_, _, _)
verifyClockResetSignals(modNames, pipeMap, run) ==
    IF modNames = <<>> THEN <<>>
    ELSE LET modName == modNames[1]
         IN (IF isEnabled(pipeMap[modName])
             THEN (IF modName \notin run.withClock
                   THEN <<Error("clock signal not found", modName)>> ELSE <<>>) \o
                  (IF modName \notin run.withReset
                   THEN <<Error("reset signal not found", modName)>> ELSE <<>>)
             ELSE <<>>) \o verifyClockResetSignals(Tail(modNames), pipeMap, run)

\* the runs of xmrEliminate: the state of the input files, config.topModule,
\* config.modules and the clock and reset declarations of the design
Runs ==
    {[inputFiles |-> r[1], topModule |-> r[2], modules |-> r[3],
      withClock |-> r[4].withClock, withReset |-> r[4].withReset] :
        r \in {"none", "missing", "present"} \X {EmptyStr, nT, <<"X">>} \X
              {{}, {nT}, {nM, nK}} \X ClockedDesigns}

ElimInit ==
    /\ PipeIdle
    /\ NameIdle
    /\ xmrInfos = <<>>
    /\ idx = 1
    /\ processedXMRs = {}
    /\ processedBasePaths = {}
    /\ changes = EmptyChangeSet
    /\ pc = "validate"
    /\ config \in PipeRegConfigMaps
    /\ input \in Runs
    /\ runResult = NoResult
    /\ trees = OriginalTrees
    /\ rewriter = {}

\* Step 1: Validate inputs
ValidateInputs ==
    /\ pc = "validate"
    /\ IF input.inputFiles = "none"
       THEN /\ runResult' = [runResult EXCEPT !.errors = <<Error("no input files", EmptyStr)>>]
            /\ pc' = "returned"
       ELSE IF input.inputFiles = "missing"
       THEN /\ runResult' = [runResult EXCEPT
                                !.errors = <<Error("input file does not exist", EmptyStr)>>]
            /\ pc' = "returned"
       ELSE /\ pc' = "top"
            /\ UNCHANGED runResult
    /\ UNCHANGED <<xmrInfos, config, idx, processedXMRs, processedBasePaths, changes>>
    /\ UNCHANGED <<input, trees, rewriter, pipeVars, nameVars>>

\* Step 4: Detect top modules
DetectTopModules ==
    /\ pc = "top"
    /\ runResult' =
          [runResult EXCEPT
              !.detectedTopModules = detectTopModules,
              !.usedTopModule = IF input.topModule # EmptyStr THEN input.topModule
                                ELSE IF Len(detectTopModules) = 1 THEN detectTopModules[1]
                                ELSE @,
              !.warnings = IF input.topModule = EmptyStr /\ Len(detectTopModules) > 1
                           THEN Append(@, Error("multiple top modules detected", EmptyStr))
                           ELSE @]
    /\ pc' = "detect"
    /\ UNCHANGED <<xmrInfos, config, idx, processedXMRs, processedBasePaths, changes>>
    /\ UNCHANGED <<input, trees, rewriter, pipeVars, nameVars>>

\* Step 5, XMRDetector::handle(HierarchicalValueExpression) at site idx
AtSite == pc = "detect" /\ idx <= Len(Sites)

InTargetModules(site) ==
    input.modules = {} \/ NodeAt(site.from).def \in input.modules

\* if (!targetModules.empty() && targetModules.count(moduleName) == 0) return;
FilterModule ==
    /\ AtSite
    /\ ~InTargetModules(Sites[idx])
    /\ idx' = idx + 1
    /\ UNCHANGED <<xmrInfos, config, pc, processedXMRs, processedBasePaths, changes>>
    /\ UNCHANGED <<elimVars, pipeVars, nameVars>>

\* the XMRInfo is built and pushed to detectedXMRs
EmitXMR ==
    LET info == DetectXMR(HierarchicalValueExpression(Sites[idx]))
    IN /\ AtSite
       /\ InTargetModules(Sites[idx])
       /\ getUniqueId(info) \notin processedXMRs
       /\ processedXMRs' = processedXMRs \cup {getUniqueId(info)}
       /\ xmrInfos' = Append(xmrInfos, info)
       /\ idx' = idx + 1
       /\ UNCHANGED <<config, pc, processedBasePaths, changes>>
       /\ UNCHANGED <<elimVars, pipeVars, nameVars>>

\* "Avoid duplicates": the unique key was seen before
DropDuplicate ==
    LET info == DetectXMR(HierarchicalValueExpression(Sites[idx]))
    IN /\ AtSite
       /\ InTargetModules(Sites[idx])
       /\ getUniqueId(info) \in processedXMRs
       /\ idx' = idx + 1
       /\ UNCHANGED <<xmrInfos, config, pc, processedXMRs, processedBasePaths, changes>>
       /\ UNCHANGED <<elimVars, pipeVars, nameVars>>

\* end of Step 5: without XMRs the input files are returned unchanged
FinishDetection ==
    /\ pc = "detect"
    /\ idx > Len(Sites)
    /\ IF xmrInfos = <<>>
       THEN /\ runResult' = [runResult EXCEPT
                                !.warnings = Append(@, Error("no XMR references found", EmptyStr)),
                                !.modifiedFiles = <<OriginalTrees>>]
            /\ pc' = "returned"
       ELSE /\ runResult' = [runResult EXCEPT !.eliminatedXMRs = xmrInfos]
            /\ pc' = "verify"
    /\ UNCHANGED <<xmrInfos, config, idx, processedXMRs, processedBasePaths, changes>>
    /\ UNCHANGED <<input, trees, rewriter, pipeVars, nameVars>>

\* Step 6: Verify clock/reset signals if pipeline registers are requested
VerifyClockReset ==
    LET needsPipelineRegs == \E m \in DOMAIN config : isEnabled(config[m])
        clockResetErrors == verifyClockResetSignals(SortNames(DOMAIN config), config, input)
    IN /\ pc = "verify"
       /\ IF needsPipelineRegs /\ clockResetErrors # <<>>
          THEN /\ runResult' = [runResult EXCEPT !.errors = clockResetErrors]
               /\ pc' = "returned"
          ELSE /\ pc' = "compute"
               /\ UNCHANGED runResult
       /\ UNCHANGED <<xmrInfos, config, idx, processedXMRs, processedBasePaths, changes>>
       /\ UNCHANGED <<input, trees, rewriter, pipeVars, nameVars>>

\* Step 7: Compute all changes needed
ComputeChanges ==
    /\ pc = "compute"
    /\ changes' = computeXMRChanges(xmrInfos, config)
    /\ pc' = "pass1"
    /\ UNCHANGED <<xmrInfos, config, idx, processedXMRs, processedBasePaths>>
    /\ UNCHANGED <<elimVars, pipeVars, nameVars>>

\* Step 8: Rewrite Pass 1 - Module modifications
RewritePass1 ==
    /\ pc = "pass1"
    /\ trees' = TransformFirst(changes, trees)
    /\ pc' = "pass2"
    /\ UNCHANGED <<xmrInfos, config, idx, processedXMRs, processedBasePaths, changes>>
    /\ UNCHANGED <<input, runResult, rewriter, pipeVars, nameVars>>

\* Step 9: Rewrite Pass 2 - Instance connection updates, by a new rewriter
RewritePass2 ==
    LET done == TransformSecond(changes, trees, {}, InstantiationOrder(1, {}))
    IN /\ pc = "pass2"
       /\ trees' = done.trees
       /\ rewriter' = done.processed
       /\ pc' = "output"
       /\ UNCHANGED <<xmrInfos, config, idx, processedXMRs, processedBasePaths, changes>>
       /\ UNCHANGED <<input, runResult, pipeVars, nameVars>>

\* Steps 10 and 11: the trees are printed into modifiedFiles
GenerateOutput ==
    /\ pc = "output"
    /\ runResult' = [runResult EXCEPT !.modifiedFiles = <<trees>>]
    /\ pc' = "returned"
    /\ UNCHANGED <<xmrInfos, config, idx, processedXMRs, processedBasePaths, changes>>
    /\ UNCHANGED <<input, trees, rewriter, pipeVars, nameVars>>

ElimNext ==
    \/ ValidateInputs
    \/ DetectTopModules
    \/ FilterModule
    \/ EmitXMR
    \/ DropDuplicate
    \/ FinishDetection
    \/ VerifyClockReset
    \/ ComputeChanges
    \/ RewritePass1
    \/ RewritePass2
    \/ GenerateOutput

ElimSpec == ElimInit /\ [][ElimNext]_vars

-----------------------------------------------------------------------------
(* The call generatePortName(fullPath) on the path strings *)

MaxPathLen == 4

\* a letter, a digit, and the characters that stand between the names of a
\* hierarchical path: the dot and white space (blank, line feed, carriage
\* return)
PathChars == {"u", "2", ".", " ", "\n", "\r"}

PathStrings == UNION {[1..n -> PathChars] : n \in 0..MaxPathLen}

NameInit ==
    /\ PlannerIdle
    /\ PipeIdle
    /\ ElimIdle
    /\ pc = "call"
    /\ pathString \in PathStrings
    /\ generatedName = NoName
    /\ split = NoSplit

CallGeneratePortName ==
    /\ pc = "call"
    /\ generatedName' = generatePortName(pathString)
    /\ pc' = "returned"
    /\ UNCHANGED <<xmrInfos, config, idx, processedXMRs, processedBasePaths, changes>>
    /\ UNCHANGED <<pathString, split, pipeVars, elimVars>>

NameNext == CallGeneratePortName

NameSpec == NameInit /\ [][NameNext]_vars

-----------------------------------------------------------------------------
(* The calls extractBasePath(fullPath) and extractArraySuffix(fullPath) *)

MaxTextLen == 6

\* a letter, the dot, the brackets of a select, a digit and a blank
TextChars == {"u", ".", "[", "]", "0", " "}

\* the brackets of the text from position i on are balanced and not nested,
\* and no select is empty
RECURSIVE Bracketed(_, _, _)
Bracketed(text, i, open) ==
    IF i > Len(text) THEN ~open
    ELSE IF text[i] = "[" THEN ~open /\ i < Len(text) /\ text[i + 1] # "]" /\ Bracketed(text, i + 1, TRUE)
    ELSE IF text[i] = "]" THEN open /\ Bracketed(text, i + 1, FALSE)
    ELSE Bracketed(text, i + 1, open)

\* the texts of hierarchical references: they begin with a name and end
\* with a name or a select
XmrTexts ==
    {text \in UNION {[1..n -> TextChars] : n \in 1..MaxTextLen} :
        /\ text[1] = "u"
        /\ text[Len(text)] \in {"u", "]"}
        /\ Bracketed(text, 1, FALSE)}

SplitInit ==
    /\ PlannerIdle
    /\ PipeIdle
    /\ ElimIdle
    /\ pc = "call"
    /\ pathString \in XmrTexts
    /\ generatedName = NoName
    /\ split = NoSplit

CallExtract ==
    /\ pc = "call"
    /\ split' = [base |-> extractBasePath(pathString), suffix |-> extractArraySuffix(pathString)]
    /\ pc' = "returned"
    /\ UNCHANGED <<xmrInfos, config, idx, processedXMRs, processedBasePaths, changes>>
    /\ UNCHANGED <<pathString, generatedName, pipeVars, elimVars>>

SplitNext == CallExtract

SplitSpec == SplitInit /\ [][SplitNext]_vars

-----------------------------------------------------------------------------
(* Rewriter pass 2 applied again and again, XMRRewriter.cpp and Step 9 *)

MaxApplications == 2

\* the trees after pass 1 of a planned ChangeSet, no XMRRewriterSecond yet
RewriteInit ==
    /\ PipeIdle
    /\ NameIdle
    /\ xmrInfos \in UNION {[1..n -> DetectedXMRs] : n \in 0..MaxXmrs}
    /\ config \in PipeRegConfigMaps
    /\ idx = 0
    /\ pc = "pass2"
    /\ processedXMRs = {}
    /\ processedBasePaths = {}
    /\ changes = computeXMRChanges(xmrInfos, config)
    /\ input = NoRun
    /\ runResult = NoResult
    /\ trees = TransformFirst(changes, OriginalTrees)
    /\ rewriter = {}

\* std::make_unique<internal::XMRRewriterSecond>(changeSet): a rewriter
\* whose processedConnections is empty takes the place of the used one
ConstructRewriter ==
    /\ pc = "pass2"
    /\ rewriter # {}
    /\ rewriter' = {}
    /\ UNCHANGED <<plannerVars, input, runResult, trees, pipeVars, nameVars>>

\* rewriter->transform(tree): one application of pass 2 to the trees
Transform ==
    LET done == TransformSecond(changes, trees, rewriter, InstantiationOrder(1, {}))
    IN /\ pc = "pass2"
       /\ idx < MaxApplications
       /\ trees' = done.trees
       /\ rewriter' = done.processed
       /\ idx' = idx + 1
       /\ UNCHANGED <<xmrInfos, config, pc, processedXMRs, processedBasePaths, changes>>
       /\ UNCHANGED <<input, runResult, pipeVars, nameVars>>

RewriteNext ==
    \/ ConstructRewriter
    \/ Transform

RewriteSpec == RewriteInit /\ [][RewriteNext]_vars

-----------------------------------------------------------------------------
(* Vocabulary of the properties *)

SeqToSet(seq) == {seq[i] : i \in DOMAIN seq}

NumPorts(cs, mod, name, dir) ==
    Cardinality({i \in DOMAIN At(cs.portsToAdd, mod) :
                    /\ At(cs.portsToAdd, mod)[i].portName = name
                    /\ At(cs.portsToAdd, mod)[i].direction = dir})

NumWires(cs, mod, name) ==
    Cardinality({i \in DOMAIN At(cs.wiresToAdd, mod) : At(cs.wiresToAdd, mod)[i].wireName = name})

NumConnections(cs, parent, inst, port, signal) ==
    Cardinality({i \in DOMAIN cs.connectionChanges :
                    /\ cs.connectionChanges[i].parentModule = parent
                    /\ cs.connectionChanges[i].instanceName = inst
                    /\ cs.connectionChanges[i].portName = port
                    /\ cs.connectionChanges[i].signalName = signal})

AllPorts(cs) ==
    UNION {{<<m, i>> : i \in DOMAIN cs.portsToAdd[m]} : m \in DOMAIN cs.portsToAdd}

AllWires(cs) ==
    UNION {{<<m, i>> : i \in DOMAIN cs.wiresToAdd[m]} : m \in DOMAIN cs.wiresToAdd}

\* the modules the instance map gives for the hops of a path, up to the first
\* hop it does not hold
RECURSIVE ResolvedHops(_, _, _)
ResolvedHops(segs, i, currentModule) ==
    IF i > Len(segs) \/ <<currentModule, segs[i]>> \notin DOMAIN instanceMap THEN <<>>
    ELSE <<instanceMap[<<currentModule, segs[i]>>]>> \o
         ResolvedHops(segs, i + 1, instanceMap[<<currentModule, segs[i]>>])

HopsOf(xmr) == ResolvedHops(xmr.pathSegments, 1, xmr.sourceModule)
AllHopsResolve(xmr) == Len(HopsOf(xmr)) = Len(xmr.pathSegments)
\* the parent module of hop j
HopParent(xmr, j) == IF j = 1 THEN xmr.sourceModule ELSE HopsOf(xmr)[j - 1]

IsSelf(xmr) == xmr.pathSegments = <<>>
IsDownward(xmr) == ~IsSelf(xmr) /\ ~xmr.isUpwardReference
IsUpward(xmr) == ~IsSelf(xmr) /\ xmr.isUpwardReference
ChainDirection(xmr) == IF xmr.isWrite THEN dirInput ELSE dirOutput

\* element i of the list is the one the planner processes for its unique id
Processed(i) == \A j \in 1..(i - 1) : getUniqueId(xmrInfos[j]) # getUniqueId(xmrInfos[i])

\* element i of the list is the one the planner routes for its base path
Routed(i) ==
    /\ ~IsSelf(xmrInfos[i])
    /\ Processed(i)
    /\ \A j \in 1..(i - 1) :
          IsSelf(xmrInfos[j]) \/ basePathKey(xmrInfos[j]) # basePathKey(xmrInfos[i])

EndsWith(str, suffix) ==
    /\ Len(suffix) <= Len(str)
    /\ SubSeq(str, Len(str) - Len(suffix) + 1, Len(str)) = suffix

-----------------------------------------------------------------------------
(* C1 *)

\* the records of the chain of a downward reference, ports of direction dir
ChainRecorded(cs, xmr, dir) ==
    LET p == portNameOf(xmr)
        n == Len(xmr.pathSegments)
    IN /\ NumWires(cs, xmr.sourceModule, p) = 1
       /\ \A j \in 1..n :
             NumConnections(cs, HopParent(xmr, j), xmr.pathSegments[j], p, p) = 1
       /\ \A j \in 1..(n - 1) : NumPorts(cs, HopsOf(xmr)[j], p, dir) = 1
       /\ NumPorts(cs, xmr.targetModule, p, dir) = 1

\* nothing but the chain of the reference is recorded
OnlyChainRecorded(cs, xmr, dir) ==
    LET p == portNameOf(xmr)
        n == Len(xmr.pathSegments)
    IN /\ Cardinality(AllWires(cs)) = 1
       /\ Len(cs.connectionChanges) = n
       /\ Cardinality(AllPorts(cs)) = n
       /\ \A q \in AllPorts(cs) :
             /\ cs.portsToAdd[q[1]][q[2]].portName = p
             /\ cs.portsToAdd[q[1]][q[2]].direction = dir

\* C1: for a downward read XMR with n >= 1 path segments that all resolve in
\* the instance map and no pipeline configuration for its source module, the
\* returned ChangeSet holds exactly one wire port_name in the source module,
\* one connection change per hop binding port port_name of the hop's instance
\* to the signal port_name of the hop's parent, one output port port_name in
\* each of the n-1 intermediate modules and in the target module, and the
\* assign "port_name = target_signal" in the target module, where port_name is
\* generatePortName(extractBasePath(fullPath)); when the XMR is the only one,
\* the ChangeSet holds nothing else.
C1_DownwardReadChain ==
    Returned =>
        \A i \in DOMAIN xmrInfos :
            LET xmr == xmrInfos[i]
                p == generatePortName(extractBasePath(xmr.fullPath))
            IN (/\ Routed(i)
                /\ IsDownward(xmr)
                /\ ~xmr.isWrite
                /\ AllHopsResolve(xmr)
                /\ xmr.sourceModule \notin DOMAIN config)
               => /\ ChainRecorded(changes, xmr, dirOutput)
                  /\ AssignText(p, xmr.targetSignal) \in
                        SeqToSet(At(changes.assignsToAdd, xmr.targetModule))
                  /\ Len(xmrInfos) = 1 =>
                        /\ OnlyChainRecorded(changes, xmr, dirOutput)
                        /\ changes.assignsToAdd =
                              Assign(<<>>, xmr.targetModule, <<AssignText(p, xmr.targetSignal)>>)
                        /\ changes.pipeRegsToAdd = <<>>

C1_Witness ==
    /\ Returned
    /\ Len(xmrInfos) = 1
    /\ IsDownward(xmrInfos[1])
    /\ ~xmrInfos[1].isWrite
    /\ Len(xmrInfos[1].pathSegments) = 2
    /\ AllHopsResolve(xmrInfos[1])
    /\ xmrInfos[1].sourceModule \notin DOMAIN config
    /\ Len(changes.connectionChanges) = 2

-----------------------------------------------------------------------------
(* C2 *)

-----------------------------------------------------------------------------
(* C3 *)

\* C3: an XMR whose pathSegments is empty adds no port, wire, assign,
\* connection change or pipeline register: the returned ChangeSet is the one
\* returned for the list without the self-references, except that
\* xmrReplacements also maps (sourceModule, fullPath) of every self-reference
\* to its targetSignal.
C3_SelfReferenceOnlyReplaces ==
    Returned =>
        LET others == SelectSeq(xmrInfos, LAMBDA x : ~IsSelf(x))
            ref == computeXMRChanges(others, config)
            selfKeys == {<<xmrInfos[i].sourceModule, xmrInfos[i].fullPath>> :
                            i \in {j \in DOMAIN xmrInfos : IsSelf(xmrInfos[j])}}
        IN /\ changes.portsToAdd = ref.portsToAdd
           /\ changes.wiresToAdd = ref.wiresToAdd
           /\ changes.assignsToAdd = ref.assignsToAdd
           /\ changes.connectionChanges = ref.connectionChanges
           /\ changes.pipeRegsToAdd = ref.pipeRegsToAdd
           /\ DOMAIN changes.xmrReplacements = DOMAIN ref.xmrReplacements \cup selfKeys
           /\ \A k \in DOMAIN ref.xmrReplacements \ selfKeys :
                 changes.xmrReplacements[k] = ref.xmrReplacements[k]
           /\ \A i \in DOMAIN xmrInfos :
                 (IsSelf(xmrInfos[i]) /\ Processed(i)) =>
                     changes.xmrReplacements[<<xmrInfos[i].sourceModule, xmrInfos[i].fullPath>>]
                         = xmrInfos[i].targetSignal

C3_Witness ==
    /\ Returned
    /\ Len(xmrInfos) = 2
    /\ IsSelf(xmrInfos[1])
    /\ ~IsSelf(xmrInfos[2])
    /\ <<xmrInfos[1].sourceModule, xmrInfos[1].fullPath>> \in DOMAIN changes.xmrReplacements
    /\ changes.portsToAdd # <<>>

-----------------------------------------------------------------------------
(* C4 *)

\* C4: in the returned ChangeSet no module has two entries of portsToAdd with
\* the same portName, whatever their directions.
C4_OnePortPerName ==
    Returned =>
        \A m \in DOMAIN changes.portsToAdd :
            \A i, j \in DOMAIN changes.portsToAdd[m] :
                i # j => changes.portsToAdd[m][i].portName # changes.portsToAdd[m][j].portName

-----------------------------------------------------------------------------
(* C5 *)

\* C5: every connection change of the returned ChangeSet names a port that is
\* in portsToAdd of the module of the instance or is a port that module
\* already has.
C5_NoOrphanConnection ==
    Returned =>
        \A i \in DOMAIN changes.connectionChanges :
            LET conn == changes.connectionChanges[i] IN
            \/ conn.portName \in ExistingPorts(conn.instanceModule)
            \/ \E q \in SeqToSet(At(changes.portsToAdd, conn.instanceModule)) :
                  q.portName = conn.portName

-----------------------------------------------------------------------------
(* C6 *)

\* C6: the signalName of every connection change of the returned ChangeSet
\* is, in the parent module of the connection, a wire of wiresToAdd or the
\* name of a port of that module.
C6_ConnectionSignalDeclared ==
    Returned =>
        \A i \in DOMAIN changes.connectionChanges :
            LET conn == changes.connectionChanges[i] IN
            \/ conn.signalName \in ExistingPorts(conn.parentModule)
            \/ \E w \in SeqToSet(At(changes.wiresToAdd, conn.parentModule)) :
                  w.wireName = conn.signalName
            \/ \E q \in SeqToSet(At(changes.portsToAdd, conn.parentModule)) :
                  q.portName = conn.signalName

-----------------------------------------------------------------------------
(* C7 *)

\* the ports one iteration of the loop appends to portsToAdd
AddedPorts ==
    UNION {{changes'.portsToAdd[m][k] :
               k \in (Len(At(changes.portsToAdd, m)) + 1)..Len(changes'.portsToAdd[m])} :
           m \in DOMAIN changes'.portsToAdd}

LoopStep == pc = "loop" /\ pc' = "loop" /\ idx' = idx + 1

\* C7 as stated: all the ports the planner adds when it routes a
\* (sourceModule, basePath) have one direction, output for a read and input
\* for a write.
C7_ChainSameDirection ==
    [][LoopStep => \A q \in AddedPorts : q.direction = ChainDirection(xmrInfos[idx])]_vars

\* C7, amended: all the ports the planner adds when it routes a
\* (sourceModule, basePath) downward have one direction, output when the routed
\* XMR is a read and input when it is a write; when it routes one upward, the
\* only input port added is the one of the source module and every other port
\* added is an output port.
C7_DirectionByRouting ==
    [][(LoopStep /\ AddedPorts # {}) =>
          LET xmr == xmrInfos[idx] IN
          IF xmr.isUpwardReference
          THEN /\ {q \in AddedPorts : q.direction = dirInput} =
                     {PortChange(xmr.sourceModule, portNameOf(xmr), dirInput, xmr.bitWidth, EmptyStr)}
               /\ \A q \in AddedPorts : q.direction \in {dirInput, dirOutput}
          ELSE \A q \in AddedPorts : q.direction = ChainDirection(xmr)]_vars

C7_Witness ==
    /\ pc = "loop"
    /\ idx = 2
    /\ IsDownward(xmrInfos[1])
    /\ xmrInfos[1].isWrite
    /\ Len(xmrInfos[1].pathSegments) = 2
    /\ NumPorts(changes, nM, portNameOf(xmrInfos[1]), dirInput) = 1
    /\ NumPorts(changes, nS, portNameOf(xmrInfos[1]), dirInput) = 1
    /\ NumPorts(changes, nS, portNameOf(xmrInfos[1]), dirOutput) = 0

-----------------------------------------------------------------------------
(* C8 *)

\* C8: for every XMR the planner processes, self-references included, the
\* text recorded in xmrReplacements ends with extractArraySuffix(fullPath).
C8_ReplacementKeepsSuffix ==
    Returned =>
        \A i \in DOMAIN xmrInfos :
            Processed(i) =>
                LET key == <<xmrInfos[i].sourceModule, xmrInfos[i].fullPath>> IN
                /\ key \in DOMAIN changes.xmrReplacements
                /\ EndsWith(changes.xmrReplacements[key], extractArraySuffix(xmrInfos[i].fullPath))

-----------------------------------------------------------------------------
(* C9 *)

\* the element of the list routed for the source module and base path of
\* element i
RoutedFor(i) ==
    CHOOSE j \in 1..i :
        /\ basePathKey(xmrInfos[j]) = basePathKey(xmrInfos[i])
        /\ \A k \in 1..(j - 1) : basePathKey(xmrInfos[k]) # basePathKey(xmrInfos[i])

HasNoSelect(name) == \A k \in DOMAIN name : name[k] \notin {"[", "]"}

\* the XMRs of source module and base path of element i share one chain
SharedChain(i) ==
    LET xmr == xmrInfos[i]
        p == portNameOf(xmr)
        n == Len(xmr.pathSegments)
        dir == ChainDirection(xmrInfos[RoutedFor(i)])
        key == <<xmr.sourceModule, xmr.fullPath>>
    IN /\ NumWires(changes, xmr.sourceModule, p) = 1
       /\ \A j \in 1..Len(HopsOf(xmr)) :
             /\ NumConnections(changes, HopParent(xmr, j), xmr.pathSegments[j], p, p) = 1
             /\ j < n => NumPorts(changes, HopsOf(xmr)[j], p, dir) = 1
       /\ NumPorts(changes, xmr.targetModule, p, dir) = 1
       /\ HasNoSelect(p)
       /\ p = generatePortName(extractBasePath(xmrInfos[RoutedFor(i)].fullPath))
       /\ key \in DOMAIN changes.xmrReplacements
       /\ changes.xmrReplacements[key] = p \o extractArraySuffix(xmr.fullPath)

-----------------------------------------------------------------------------
(* C10 *)

\* the modules that get a port for a routed XMR
PortModules(xmr) ==
    IF xmr.isUpwardReference
    THEN {xmr.sourceModule} \cup
         SeqToSet(ResolvedHops(xmr.pathSegments, 2, FirstModuleDef(xmr.pathSegments[1])))
    ELSE {HopsOf(xmr)[j] : j \in {k \in DOMAIN HopsOf(xmr) : k < Len(xmr.pathSegments)}}
         \cup {xmr.targetModule}

\* C10: every port that remains in portsToAdd for a reference to a symbol has
\* the declared width of the symbol (bitWidth of the XMR), also after the
\* deduplication.
C10_PortWidthIsDeclaredWidth ==
    Returned =>
        \A i \in DOMAIN xmrInfos :
            Routed(i) =>
                \A m \in PortModules(xmrInfos[i]) :
                    \A q \in SeqToSet(At(changes.portsToAdd, m)) :
                        q.portName = portNameOf(xmrInfos[i]) => q.bitWidth = xmrInfos[i].bitWidth

-----------------------------------------------------------------------------
(* C11 *)

\* the target module holds the direct assign of the port of the reference
HasDirectAssign(cs, xmr) ==
    \E k \in DOMAIN At(cs.assignsToAdd, xmr.targetModule) :
        At(cs.assignsToAdd, xmr.targetModule)[k] \in
            {AssignText(portNameOf(xmr), xmr.targetSignal),
             AssignText(xmr.targetSignal, portNameOf(xmr))}

\* the target module holds a pipeline-register entry with stages > 0 for the
\* port of the reference
HasPipeRegEntry(cs, xmr) ==
    \E k \in DOMAIN At(cs.pipeRegsToAdd, xmr.targetModule) :
        /\ At(cs.pipeRegsToAdd, xmr.targetModule)[k].outputSignal = portNameOf(xmr)
        /\ At(cs.pipeRegsToAdd, xmr.targetModule)[k].regCount > 0

\* C11: for every routed downward XMR, under every pipeline configuration of
\* its source module, the target module holds the direct assign of the port
\* exactly when it holds no pipeline-register entry with stages > 0 for that
\* port: never both, never neither.
C11_AssignIffNoPipeReg ==
    Returned =>
        \A i \in DOMAIN xmrInfos :
            (Routed(i) /\ IsDownward(xmrInfos[i])) =>
                (HasDirectAssign(changes, xmrInfos[i]) <=> ~HasPipeRegEntry(changes, xmrInfos[i]))

-----------------------------------------------------------------------------
(* C12 *)

\* the value of stage i of the chain of the call
StageValue(regValues, i) == regValues[PipeName(call.outputSignal, i)]

\* the reset signal is at its active level
ResetAsserted == rst = (IF call.resetActiveLow THEN 0 ELSE 1)

Simulating == pc = "simulate"

\* the text describes a chain of regCount registers whose last stage drives
\* the output, and nothing when regCount <= 0
DescribesChain ==
    Simulating =>
        IF call.regCount <= 0 THEN rtl = <<>>
        ELSE /\ RegNames(rtl) = {PipeName(call.outputSignal, i) : i \in 0..(call.regCount - 1)}
             /\ Cardinality(Statements(rtl, "reg")) = call.regCount
             /\ OutputValue(rtl, regs) = StageValue(regs, call.regCount - 1)

\* every stage is zero while reset is asserted
ZeroInReset ==
    (Simulating /\ rtl # <<>> /\ ResetAsserted) =>
        \A i \in 0..(call.regCount - 1) : StageValue(regs, i) = 0

\* after regCount clock edges without reset the output is the input that was
\* sampled regCount edges earlier
LatencyIsStages ==
    (Simulating /\ rtl # <<>> /\ Len(sampled) = call.regCount) =>
        OutputValue(rtl, regs) = sampled[1]

\* a clock edge without reset: stage 0 takes the input, stage i the previous
\* value of stage i-1
ShiftsOnClockEdge ==
    (Simulating /\ rtl # <<>> /\ rst' = rst /\ ~ResetAsserted) =>
        /\ sampled' # <<>>
        /\ StageValue(regs', 0) = sampled'[Len(sampled')]
        /\ \A i \in 1..(call.regCount - 1) : StageValue(regs', i) = StageValue(regs, i - 1)

\* C12: generatePipelineRegisters with stages N >= 1 describes an N-register
\* chain: on a clock edge without reset stage 0 takes the input and stage i
\* the previous value of stage i-1, every stage is zero while reset is
\* asserted, the output equals stage N-1, so that after N edges without reset
\* the output is the input sampled N edges earlier; with stages <= 0 the
\* text is empty.
C12_PipelineChain ==
    /\ [](DescribesChain /\ ZeroInReset /\ LatencyIsStages)
    /\ [][ShiftsOnClockEdge]_vars

\* three edges after reset was released a three-stage chain shows the first
\* of three different inputs
C12_Witness ==
    /\ Simulating
    /\ call.regCount = 3
    /\ ~ResetAsserted
    /\ sampled = <<1, 2, 3>>
    /\ OutputValue(rtl, regs) = 1
    /\ StageValue(regs, 0) = 3

-----------------------------------------------------------------------------
(* Claims on xmrEliminate *)

ElimReturned == pc = "returned"
Rewriting == pc \in {"pass1", "pass2", "output"}

\* module M is to receive pipeline registers under the change set
ReceivesPipeRegs(cs, M) ==
    \E k \in DOMAIN At(cs.pipeRegsToAdd, M) : At(cs.pipeRegsToAdd, M)[k].regCount > 0

DeclaresClockAndReset(M) == M \in input.withClock /\ M \in input.withReset

\* C13: whenever xmrEliminate is in the rewriting passes with a
\* pipeline-register entry planned for module M, M declares the configured
\* clock and the configured reset; and a run whose plan gives pipeline
\* registers to a module lacking either one returns with errors, with no
\* modified files and with the trees not rewritten.
C13_ClockResetVerified ==
    /\ Rewriting =>
          \A M \in Modules : ReceivesPipeRegs(changes, M) => DeclaresClockAndReset(M)
    /\ (ElimReturned /\ xmrInfos # <<>>
        /\ \E M \in Modules : /\ ReceivesPipeRegs(computeXMRChanges(xmrInfos, config), M)
                              /\ ~DeclaresClockAndReset(M))
          => /\ runResult.errors # <<>>
             /\ runResult.modifiedFiles = <<>>
             /\ trees = OriginalTrees

\* the text holds a hierarchical path
HasHierarchicalPath(text) == \E k \in DOMAIN text : text[k] = "."

\* pass 1 has put a replacement in place of the reference at site i
Spliced(i) == trees.texts[i] # OriginalTrees.texts[i]

\* C14: once pass 1 has run, every text it has spliced in place of an XMR
\* is free of hierarchical paths, so that the output holds no XMR at the
\* rewritten sites and a further run finds nothing there.
C14_NoHierarchicalRemains ==
    pc \in {"pass2", "output", "returned"} =>
        \A i \in DOMAIN Sites : Spliced(i) => ~HasHierarchicalPath(trees.texts[i])

\* the detector emits an XMRInfo in this step
Emits == pc = "detect" /\ Len(xmrInfos') = Len(xmrInfos) + 1

\* the reference at the site is written: target of an assignment, or actual
\* argument of a formal of direction output or inout
IsWriteSite(site) == site.role \in {"assignTarget", "outputArg", "inoutArg"}

\* C15: every XMRInfo the detector emits is a write exactly when the
\* reference is the left-hand side of an assignment or the actual argument
\* of an output or inout formal, and exactly one of isRead and isWrite is
\* true in it.
C15_WriteClassification ==
    [][Emits =>
          LET info == xmrInfos'[Len(xmrInfos')]
          IN /\ info.isWrite <=> IsWriteSite(Sites[idx])
             /\ info.isRead <=> ~info.isWrite]_vars

-----------------------------------------------------------------------------
(* Claim on generatePortName *)

\* the separator characters generatePortName collapses
IsSeparator(c) == c \in {".", " ", "\t", "\n"}

RECURSIVE DropSeparators(_)
DropSeparators(str) ==
    IF str # <<>> /\ IsSeparator(str[1]) THEN DropSeparators(Tail(str)) ELSE str

\* the path with every maximal run of separators replaced by one underscore
RECURSIVE CollapseRuns(_)
CollapseRuns(str) ==
    IF str = <<>> THEN <<>>
    ELSE IF IsSeparator(str[1]) THEN <<"_">> \o CollapseRuns(DropSeparators(str))
    ELSE <<str[1]>> \o CollapseRuns(Tail(str))

Letters == {"a", "b", "c", "d", "e", "f", "g", "h", "i", "j", "k", "l", "m", "n", "o", "p",
            "q", "r", "s", "t", "u", "v", "w", "x", "y", "z", "A", "B", "C", "D", "E", "F",
            "G", "H", "I", "J", "K", "L", "M", "N", "O", "P", "Q", "R", "S", "T", "U", "V",
            "W", "X", "Y", "Z"}
Digits == {"0", "1", "2", "3", "4", "5", "6", "7", "8", "9"}

\* a simple identifier of SystemVerilog: a letter or underscore followed by
\* letters, digits, underscores and dollar signs
IsIdentifier(str) ==
    /\ str # <<>>
    /\ str[1] \in Letters \cup {"_"}
    /\ \A k \in DOMAIN str : str[k] \in Letters \cup Digits \cup {"_", "$"}

NameReturned == pc = "returned" /\ generatedName # NoName

\* C17: for every path string, generatePortName returns "__xmr__" followed
\* by the path in which every maximal run of separators is one underscore
\* (a leading run, which would leave an empty part after the prefix, gives
\* none), and what it returns is a valid SystemVerilog identifier.
C17_PortNameIsIdentifier ==
    NameReturned =>
        /\ generatedName = XmrPrefix \o CollapseRuns(DropSeparators(pathString))
        /\ IsIdentifier(generatedName)

-----------------------------------------------------------------------------
(* Claim on rewriter pass 2 *)

\* the instance of the statement binds every port at most once
BindsOnce(stmt) ==
    \A j, k \in DOMAIN trees.bindings[stmt] :
        j # k => trees.bindings[stmt][j].portName # trees.bindings[stmt][k].portName

\* C18: after any number of applications of pass 2 with the same ChangeSet,
\* each (parent module, instance name, port name) binding appears at most
\* once on its instance: a further application adds no binding.
C18_Pass2Idempotent ==
    pc = "pass2" => \A stmt \in Instantiations : BindsOnce(stmt)

-----------------------------------------------------------------------------
(* Claims on the errors of xmrEliminate and of the planner *)

\* config.topModule names a module the compiled design does not have
UnknownTopModule == input.topModule # EmptyStr /\ input.topModule \notin Modules

\* C19: when the configuration names a top module that is not a module of
\* the compiled design, xmrEliminate goes no further than the detection of
\* the top modules, and it returns with an error and without modified files.
C19_UnknownTopModuleAborts ==
    UnknownTopModule =>
        /\ pc \notin {"detect", "verify", "compute", "pass1", "pass2", "output"}
        /\ ElimReturned => (runResult.errors # <<>> /\ runResult.modifiedFiles = <<>>)

\* every hop (current module, instance name) from segment i on is in the
\* instance map
RECURSIVE HopsResolve(_, _, _)
HopsResolve(segs, i, currentModule) ==
    \/ i > Len(segs)
    \/ /\ <<currentModule, segs[i]>> \in DOMAIN instanceMap
       /\ HopsResolve(segs, i + 1, instanceMap[<<currentModule, segs[i]>>])

\* the planner meets a missing hop while it routes the XMR
MissingHop(xmr) ==
    IF IsDownward(xmr) THEN ~HopsResolve(xmr.pathSegments, 1, xmr.sourceModule)
    ELSE IsUpward(xmr) /\ ~HopsResolve(xmr.pathSegments, 2, FirstModuleDef(xmr.pathSegments[1]))

\* the change set holds a port, wire, assign or connection of the port name
HoldsChangeOf(cs, xmr, portName) ==
    \/ \E M \in DOMAIN cs.portsToAdd : \E k \in DOMAIN cs.portsToAdd[M] :
          cs.portsToAdd[M][k].portName = portName
    \/ \E M \in DOMAIN cs.wiresToAdd : \E k \in DOMAIN cs.wiresToAdd[M] :
          cs.wiresToAdd[M][k].wireName = portName
    \/ \E M \in DOMAIN cs.assignsToAdd : \E k \in DOMAIN cs.assignsToAdd[M] :
          cs.assignsToAdd[M][k] \in {AssignText(portName, xmr.targetSignal),
                                     AssignText(xmr.targetSignal, portName)}
    \/ \E k \in DOMAIN cs.connectionChanges : cs.connectionChanges[k].portName = portName

\* C20: when a hop is missing from the instance map while the planner
\* routes an XMR, the returned ChangeSet holds no port, wire, assign or
\* connection change that originates from that XMR (its port name being
\* used by no XMR of the input whose hops all resolve).
C20_MissingHopNoPartialRouting ==
    Returned =>
        \A i \in DOMAIN xmrInfos :
            (/\ Routed(i)
             /\ MissingHop(xmrInfos[i])
             /\ \A j \in DOMAIN xmrInfos :
                   portNameOf(xmrInfos[j]) = portNameOf(xmrInfos[i]) => MissingHop(xmrInfos[j]))
            => ~HoldsChangeOf(changes, xmrInfos[i], portNameOf(xmrInfos[i]))

-----------------------------------------------------------------------------
(* Claims on the upward branch, the order of the input and the stages *)

\* the first instance path InstancePathFinder finds for the source module
SourceInstPath(xmr) == InstancePathFinder(xmr.sourceModule)[1]

\* the module that holds the source instance of that path
ImmediateParent(xmr) ==
    NodeAt(SubSeq(SourceInstPath(xmr), 1, Len(SourceInstPath(xmr)) - 1)).def

\* C21: for every routed upward XMR whose source instance lies below the
\* root, at any depth, the ChangeSet holds an input port of the port name in
\* the source module and, in the immediate parent module of the source
\* instance on the first path found, a wire of the port name and the
\* connection change that binds the wire to the new port of that instance.
C21_UpwardWireInParent ==
    Returned =>
        \A i \in DOMAIN xmrInfos :
            (Routed(i) /\ IsUpward(xmrInfos[i]) /\ Len(SourceInstPath(xmrInfos[i])) >= 2) =>
                LET xmr == xmrInfos[i]
                    port == portNameOf(xmr)
                    path == SourceInstPath(xmr)
                IN /\ NumPorts(changes, xmr.sourceModule, port, dirInput) >= 1
                   /\ NumWires(changes, ImmediateParent(xmr), port) >= 1
                   /\ NumConnections(changes, ImmediateParent(xmr), path[Len(path)], port, port) >= 1

\* the parts of a ChangeSet as sets
PlanAsSets(cs) ==
    [ports |-> UNION {SeqToSet(cs.portsToAdd[m]) : m \in DOMAIN cs.portsToAdd},
     wires |-> UNION {SeqToSet(cs.wiresToAdd[m]) : m \in DOMAIN cs.wiresToAdd},
     assigns |-> UNION {{<<m, a>> : a \in SeqToSet(cs.assignsToAdd[m])} : m \in DOMAIN cs.assignsToAdd},
     connections |-> SeqToSet(cs.connectionChanges),
     pipeRegs |-> UNION {SeqToSet(cs.pipeRegsToAdd[m]) : m \in DOMAIN cs.pipeRegsToAdd},
     replacements |-> cs.xmrReplacements]

Reversed(seq) == [i \in DOMAIN seq |-> seq[Len(seq) + 1 - i]]

\* no two elements of the list have the same xmr_key
DistinctKeys(seq) ==
    \A i, j \in DOMAIN seq : i # j => getUniqueId(seq[i]) # getUniqueId(seq[j])

\* C22: for a list of XMRInfo values with pairwise different xmr_key,
\* computeXMRChanges returns for the list in the opposite order the same
\* plan, its parts compared as sets.
C22_OrderInsensitive ==
    (Returned /\ DistinctKeys(xmrInfos)) =>
        PlanAsSets(changes) = PlanAsSets(computeXMRChanges(Reversed(xmrInfos), config))

\* the sum of regCount over the entries from k on whose signal list is
\* empty or holds the port name or the target signal
RECURSIVE SumOfMatching(_, _, _, _)
SumOfMatching(entries, k, portName, targetSignal) ==
    IF k > Len(entries) THEN 0
    ELSE (IF entries[k].signals = <<>>
             \/ portName \in SeqToSet(entries[k].signals)
             \/ targetSignal \in SeqToSet(entries[k].signals)
          THEN entries[k].regCount ELSE 0)
         + SumOfMatching(entries, k + 1, portName, targetSignal)

\* the stage count by the mode of the source module's configuration
StagesByMode(pipeMap, xmr) ==
    IF xmr.sourceModule \notin DOMAIN pipeMap THEN 0
    ELSE LET pipeConfig == pipeMap[xmr.sourceModule] IN
         CASE pipeConfig.mode = "None" -> 0
           [] pipeConfig.mode = "Global" -> pipeConfig.globalRegCount
           [] pipeConfig.mode = "PerModule" -> Len(xmr.pathSegments)
           [] pipeConfig.mode = "Selective" ->
                 SumOfMatching(pipeConfig.entries, 1, portNameOf(xmr), xmr.targetSignal)

\* the pipeline entries of the XMR in its target module
PipeEntriesOf(cs, xmr) ==
    {p \in SeqToSet(At(cs.pipeRegsToAdd, xmr.targetModule)) :
        p.inputSignal = xmr.targetSignal /\ p.outputSignal = portNameOf(xmr)}

\* C23: for every routed XMR the planner records, in the target module and
\* with input target_signal and output port_name, a pipeline entry of as
\* many stages as the mode of the source module's configuration gives
\* (Global(n): n, PerModule: length of path_segments, Selective: sum of the
\* matching entries), and no entry of its own when that number is 0 or the
\* mode None (an entry found there is the one of another routed XMR of the
\* same target signal and port name).
C23_StagesByMode ==
    Returned =>
        \A i \in DOMAIN xmrInfos :
            Routed(i) =>
                LET stages == StagesByMode(config, xmrInfos[i])
                IN IF stages > 0
                   THEN \E p \in PipeEntriesOf(changes, xmrInfos[i]) : p.regCount = stages
                   ELSE \A p \in PipeEntriesOf(changes, xmrInfos[i]) :
                           \E j \in DOMAIN xmrInfos :
                               /\ Routed(j)
                               /\ PipeEntriesOf(changes, xmrInfos[j]) = PipeEntriesOf(changes, xmrInfos[i])
                               /\ StagesByMode(config, xmrInfos[j]) = p.regCount

-----------------------------------------------------------------------------
(* Claim on extractBasePath and extractArraySuffix *)

\* the text without the white space that stands inside brackets
RECURSIVE NormalizeInBrackets(_, _, _)
NormalizeInBrackets(text, i, depth) ==
    IF i > Len(text) THEN <<>>
    ELSE IF text[i] = "[" THEN <<"[">> \o NormalizeInBrackets(text, i + 1, depth + 1)
    ELSE IF text[i] = "]" THEN <<"]">> \o NormalizeInBrackets(text, i + 1, depth - 1)
    ELSE IF depth > 0 /\ IsSpace(text[i]) THEN NormalizeInBrackets(text, i + 1, depth)
    ELSE <<text[i]>> \o NormalizeInBrackets(text, i + 1, depth)

SplitReturned == pc = "returned" /\ split # NoSplit

\* C24: for every XMR text, the base path followed by the array suffix is
\* the text itself once the white space inside brackets is normalized away
\* on both sides.
C24_BasePlusSuffix ==
    SplitReturned =>
        NormalizeInBrackets(split.base \o split.suffix, 1, 0) = NormalizeInBrackets(pathString, 1, 0)

-----------------------------------------------------------------------------
(* Claims on names, assigns, writes and keys in the returned ChangeSet *)

\* the port name the returned ChangeSet gives the XMR in its replacement
PlannedName(xmr) ==
    extractBasePath(changes.xmrReplacements[<<xmr.sourceModule, xmr.fullPath>>])

\* C25: in the returned ChangeSet two XMRs of one source module that are
\* routed through ports and have different base paths never have the same
\* generated port name.
C25_PortNameInjective ==
    Returned =>
        \A i, j \in DOMAIN xmrInfos :
            (/\ xmrInfos[i].sourceModule = xmrInfos[j].sourceModule
             /\ ~IsSelf(xmrInfos[i]) /\ ~IsSelf(xmrInfos[j])
             /\ extractBasePath(xmrInfos[i].fullPath) # extractBasePath(xmrInfos[j].fullPath))
            => PlannedName(xmrInfos[i]) # PlannedName(xmrInfos[j])

\* the name an assign statement "assign lhs = rhs;" drives
RECURSIVE UpToBlank(_, _)
UpToBlank(text, i) ==
    IF i > Len(text) \/ text[i] = " " THEN <<>> ELSE <<text[i]>> \o UpToBlank(text, i + 1)

DrivenName(assign) == UpToBlank(assign, 8)

\* C26: in the returned ChangeSet the assigns of any module drive pairwise
\* different names: at most one assign statement per driven name.
C26_OneAssignPerName ==
    Returned =>
        \A M \in DOMAIN changes.assignsToAdd :
            \A j, k \in DOMAIN changes.assignsToAdd[M] :
                j # k => DrivenName(changes.assignsToAdd[M][j]) # DrivenName(changes.assignsToAdd[M][k])

\* the target module drives target_signal from the port: by the direct
\* assign or by a pipeline chain between the port and the signal (which end
\* of the chain the port stands at is the subject of C28)
DrivesTargetFromPort(cs, xmr) ==
    \/ AssignText(xmr.targetSignal, portNameOf(xmr)) \in SeqToSet(At(cs.assignsToAdd, xmr.targetModule))
    \/ \E p \in SeqToSet(At(cs.pipeRegsToAdd, xmr.targetModule)) :
          /\ {p.inputSignal, p.outputSignal} = {portNameOf(xmr), xmr.targetSignal}
          /\ p.regCount > 0

\* C27: every XMR of the list that is a write, has path segments and is the
\* first of its xmr_key ends, in the returned ChangeSet, with an input port
\* of its port name on the target module and a driver of target_signal from
\* that port.
C27_WriteReachesTarget ==
    Returned =>
        \A i \in DOMAIN xmrInfos :
            (xmrInfos[i].isWrite /\ xmrInfos[i].pathSegments # <<>> /\ Processed(i)) =>
                /\ NumPorts(changes, xmrInfos[i].targetModule, portNameOf(xmrInfos[i]), dirInput) >= 1
                /\ DrivesTargetFromPort(changes, xmrInfos[i])

\* C28: in the returned ChangeSet a port added with direction input is
\* never the outputSignal of a pipeline-register entry of the same module:
\* the chain of a write XMR takes the new input port as its input.
C28_InputPortNotPipeOutput ==
    Returned =>
        \A M \in DOMAIN changes.portsToAdd :
            \A k \in DOMAIN changes.portsToAdd[M] :
                changes.portsToAdd[M][k].direction = dirInput =>
                    \A p \in SeqToSet(At(changes.pipeRegsToAdd, M)) :
                        p.outputSignal # changes.portsToAdd[M][k].portName

-----------------------------------------------------------------------------
(* Claim on the self-reference prefix of the detector *)

\* C29: the detector emits an XMRInfo with empty pathSegments only for a
\* reference whose target symbol is declared in the enclosing instance
\* itself; a reference that descends into a child instance keeps the child
\* in pathSegments, also when the child has the name of the enclosing
\* instance.
C29_SelfOnlyForOwnSymbols ==
    [][Emits =>
          (xmrInfos'[Len(xmrInfos')].pathSegments = <<>> => Sites[idx].to = Sites[idx].from)]_vars

-----------------------------------------------------------------------------
(* Claim on the deduplication key *)

\* the (sourceModule, fullPath) pair of the reference at site i
SitePair(i) ==
    LET info == DetectXMR(HierarchicalValueExpression(Sites[i]))
    IN <<info.sourceModule, info.fullPath>>

\* C30: two XMRs with different (sourceModule, fullPath) pairs never have the
\* same deduplication key, so neither is dropped as a duplicate of the
\* other: once the run has returned with a rewritten design, every reference
\* of the modules under elimination has an XMRInfo of its (sourceModule,
\* fullPath) in the detector's list, and the XMRInfos of the list with
\* different pairs have different keys in the planner.
C30_DistinctPairsBothKept ==
    (ElimReturned /\ runResult.errors = <<>> /\ xmrInfos # <<>>) =>
        /\ \A i \in DOMAIN Sites :
            InTargetModules(Sites[i]) =>
                \E k \in DOMAIN xmrInfos :
                      <<xmrInfos[k].sourceModule, xmrInfos[k].fullPath>> = SitePair(i)
        /\ \A k, l \in DOMAIN xmrInfos :
              <<xmrInfos[k].sourceModule, xmrInfos[k].fullPath>>
                    # <<xmrInfos[l].sourceModule, xmrInfos[l].fullPath>>
                 => getUniqueId(xmrInfos[k]) # getUniqueId(xmrInfos[l])

====
